---- MODULE Spec2Model ----
(***************************************************************************)
(* State-machine model of stk-dropdown: the typed event bus                *)
(* (BaseEventEmitter), the asynchronous DataSource built on it, and the    *)
(* open/closed lifecycle of BaseComponent.                                 *)
(*                                                                         *)
(* Handler arrays are heap objects: on() captures the array it pushed into *)
(* (`subs` in the source), so an unsubscribe closure keeps acting on that  *)
(* array even after off() detached it from _eventHandlers.                 *)
(*                                                                         *)
(* Callbacks given to on()/once() return normally.  The only callback that *)
(* calls back into the emitter is EmitCb; the widget's DataSource          *)
(* listeners act on their widget only.  The state store                    *)
(* (stk-proxy-state-manager) is a dependency whose code is not part of the *)
(* repository: a set stores the value and runs the key's subscriber        *)
(* synchronously; whether a set to the value already held notifies is      *)
(* left open (notifySame).                                                 *)
(***************************************************************************)
EXTENDS Integers, Sequences, FiniteSets, TLC

(* ------------------------------ bounds -------------------------------- *)
MaxRegs == 3        \* on()/once() calls on one emitter
MaxArrs == 2        \* handler arrays ever allocated (a fresh one after off())
MaxEmits == 2       \* top-level emits issued by the bus driver
MaxUnsubs == 2      \* calls of unsubscribe closures, in total
MaxFetches == 2     \* fetch() calls on one DataSource
MaxWidgets == 1     \* widgets attached to one DataSource
MaxAttached == 2    \* widgets attached to one DataSource when some are destroyed
MaxLen == 3         \* entries of a collection

(* ------------------------------ universe ------------------------------ *)
BusEvents == {"greet", "count"}
DSEvents == {"loading", "load", "error"}
Events == BusEvents \cup DSEvents
Payloads == {"hello", "first"}

NoInner == <<>>
PlainCb(i) == [kind |-> "plain", id |-> i, inner |-> NoInner]
\* a handler that, when run by a top-level emit, triggers one more emit of
\* the same event through the emitter's public trigger
EmitCb == [kind |-> "emit", id |-> 0, inner |-> NoInner]
BusCallbacks == {PlainCb(1), EmitCb}

\* entries (types.ts DropdownItem) and the collections the inputs can produce
Item(v, t, d) == [value |-> v, text |-> t, disabled |-> d]
Collections ==
    << <<Item("a", "Apple", FALSE), Item("o", "Orange", FALSE)>>,
       <<Item("o", "Orange", FALSE)>> >>
CollIds == 1..Len(Collections)
DataOf(c) == Collections[c]
Values == {"a", "o"}
Null == 0           \* the null cache / no collection
Void == 0           \* the payload of `loading`
Err == -1           \* the rejection value of a failed attempt

\* the collections a widget is given directly (items / setItems): the ones
\* above, and ones holding disabled entries
ListSkip ==
    <<Item("a", "Apple", FALSE), Item("b", "Banana", TRUE), Item("o", "Orange", FALSE)>>
ListHeadDisabled == <<Item("a", "Apple", TRUE), Item("o", "Orange", FALSE)>>
ListThree ==
    <<Item("a", "Apple", FALSE), Item("b", "Banana", FALSE), Item("o", "Orange", FALSE)>>
WidgetLists == {DataOf(c) : c \in CollIds} \cup {ListSkip, ListHeadDisabled, <<>>}
WidgetValues == Values \cup {"b"}

\* the multi-select: SELECT_ALL_VALUE (the number -1, written as a value token
\* distinct from every entry value), the value arrays given to value() and as
\* `values`, the selection limits (Infinity when none is given)
SELECT_ALL_VALUE == "-1"
Infinity == 1000
ValueArrays ==
    {<<>>, <<SELECT_ALL_VALUE>>, <<"a">>, <<"b">>, <<"o", "a">>, <<"a", "b", "o">>}
ListAllDisabled == <<Item("b", "Banana", TRUE)>>
MultiLists == {ListSkip, ListThree, ListHeadDisabled, ListAllDisabled, <<>>}
Limits == {2, Infinity}
TagModes == {"multiple", "single"}

\* the filterable single-select: texts are sequences of characters ('' is
\* <<>>); the characters of the entry texts; what the user types or passes to
\* filter(); the strategies and the minimum filter lengths
CharsOf ==
    [Apple |-> <<"A", "p", "p", "l", "e">>,
     Banana |-> <<"B", "a", "n", "a", "n", "a">>,
     Orange |-> <<"O", "r", "a", "n", "g", "e">>]
FilterTexts == {<<>>, <<"a">>, <<"A", "N">>}
FilterConfigs == {<<"contains", 0>>, <<"startsWith", 2>>, <<"none", 0>>}
ComboLists == {ListSkip, DataOf(2)}
ComboKeys == {"Escape", "ArrowDown", "ArrowUp", "Enter", " "}

WidgetCb(k, i) == [kind |-> k, id |-> i, inner |-> NoInner]

\* what a DataSource can be constructed from (DataSourceInput<T>)
Inputs ==
    [kind : {"static"}, data : CollIds, ok : {TRUE}]
      \cup [kind : {"promise"}, data : CollIds, ok : BOOLEAN]
      \cup [kind : {"factory"}, data : {Null}, ok : {TRUE}]

VARIABLES
    input,          \* DataSource._input
    cache,          \* DataSource._cache (Null or a collection)
    loading,        \* DataSource._loading
    factoryCalls,   \* number of invocations of the factory
    fetches,        \* the fetch() invocations suspended at `await`, in call order
    last,           \* the invocation the last operation started or completed
    hist,           \* counters over the fetch() calls made so far
    sinceInvalidate,\* invalidate() was called and no fetch() since
    wd,             \* the widgets: their state records
    emitted,        \* events the widgets emitted during the last operation
    notifySame,     \* the state store notifies on a set to the value already held
    eventHandlers,  \* _eventHandlers: event -> array object (0 = no entry)
    subs,           \* heap of handler arrays; each the sequence of its registrations
    regs,           \* every registration made by on(): event, array, function pushed
    calls,          \* callback invocations made by the last operation, in order
    lastOp,         \* the last operation and what it observed
    emits,          \* number of top-level emits issued so far
    unsubCalls      \* number of unsubscribe calls issued so far

busVars == <<eventHandlers, subs, regs, calls>>
dsVars == <<input, cache, loading, factoryCalls, fetches, last, hist>>
vars == <<busVars, dsVars, wd, emitted, notifySame, lastOp, emits, unsubCalls,
          sinceInvalidate>>

\* everything a synchronous call chain can read or write
World ==
    [eventHandlers |-> eventHandlers, subs |-> subs, regs |-> regs, calls |-> calls,
     input |-> input, cache |-> cache, loading |-> loading,
     factoryCalls |-> factoryCalls, fetches |-> fetches, last |-> last, hist |-> hist,
     wd |-> wd, emitted |-> emitted]

(* ------------------------- BaseEventEmitter --------------------------- *)

\* the function object a registration pushed into its array
Fn(w, r) == w.regs[r].fn

\* Array.prototype.indexOf by function identity: first position, 0 if absent
IndexOf(w, a, f) ==
    LET hits == {p \in 1..Len(w.subs[a]) : Fn(w, w.subs[a][p]) = f}
    IN IF hits = {} THEN 0 ELSE CHOOSE p \in hits : \A q \in hits : p <= q

\* Array.prototype.splice(index, 1)
Splice(s, index) == SubSeq(s, 1, index - 1) \o SubSeq(s, index + 1, Len(s))

\* the closure returned by on(): `subs` and `callback` are the captured ones
unsubscribe(w, r) ==
    LET a == w.regs[r].arr
        index == IndexOf(w, a, Fn(w, r))
    IN IF index # 0 THEN [w EXCEPT !.subs[a] = Splice(@, index)] ELSE w

\* on(event, callback): `subs = (this._eventHandlers[event] ??= [])`, push
on(w, event, callback) ==
    LET fresh == w.eventHandlers[event] = 0
        a == IF fresh THEN Len(w.subs) + 1 ELSE w.eventHandlers[event]
        heap == IF fresh THEN Append(w.subs, <<>>) ELSE w.subs
        r == Len(w.regs) + 1
    IN [w EXCEPT !.eventHandlers[event] = a,
                 !.subs = [heap EXCEPT ![a] = Append(@, r)],
                 !.regs = Append(@, [ev |-> event, arr |-> a, fn |-> callback,
                                     n |-> 0, unsubs |-> 0, early |-> FALSE])]

\* once(event, callback): a fresh wrappedCallback per call, registered by on()
wrappedCallback(w, callback) ==
    [kind |-> "wrapped", id |-> Len(w.regs) + 1, inner |-> <<callback>>]

once(w, event, callback) == on(w, event, wrappedCallback(w, callback))

\* off(event): delete this._eventHandlers[event]
off(w, event) == [w EXCEPT !.eventHandlers[event] = 0]

(* ----------------------------- BaseComponent ------------------------- *)

NoItem == <<>>      \* selectedItem = null; a selected entry e is <<e>>

\* the widget's own emit(event, payload), recorded
WidgetEmit(w, i, event, payload) ==
    [w EXCEPT !.emitted = Append(@, [widget |-> i, ev |-> event, payload |-> payload])]

\* _renderItems(): the rows of the list element are those of the visible
\* collection, <<rows>>; <<>> is a list element without content
renderItems(w, i) ==
    [w EXCEPT !.wd[i].rendered = <<IF w.wd[i].kind = "dropdown" THEN w.wd[i].dataItems
                                   ELSE w.wd[i].filteredItems>>]

\* if (this._stateManager.get('opened')) this._renderItems()
renderIfOpened(w, i) == IF w.wd[i].opened THEN renderItems(w, i) ELSE w

\* the subscribers that render after a change of the collection: those of
\* MultiselectComponent always, those of the two others while opened
renderAfterChange(w, i) ==
    IF w.wd[i].kind = "multiselect" THEN renderItems(w, i) ELSE renderIfOpened(w, i)

\* _onPopoverOpen / _onPopoverClose as DropdownComponent and ComboboxComponent
\* override them (_mountList / _unmountList); MultiselectComponent keeps the
\* no-op hooks
onPopoverOpen(w, i) ==
    IF w.wd[i].kind = "multiselect" THEN w
    ELSE renderItems([w EXCEPT !.wd[i].mounted = TRUE], i)
onPopoverClose(w, i) ==
    IF w.wd[i].kind = "multiselect" THEN w
    ELSE [w EXCEPT !.wd[i].mounted = FALSE, !.wd[i].rendered = <<>>]

\* one more step of the `opened` subscriber, noted in the order they are run
Step(w, i, name) == [w EXCEPT !.wd[i].steps = Append(@, name)]

\* (variant: the event is emitted before the hook runs and the popover changes)
openedSubscriberEmitFirst(w, i, isOpened) ==
    LET w0 == [w EXCEPT !.wd[i].steps = <<>>]
        sent == Step(WidgetEmit(w0, i, IF isOpened THEN "open" ELSE "close", Void), i, "emit")
        hooked == IF ~sent.wd[i].initialized THEN sent
                  ELSE IF isOpened THEN Step(onPopoverOpen(sent, i), i, "hook")
                  ELSE Step(onPopoverClose(sent, i), i, "hook")
    IN Step([hooked EXCEPT !.wd[i].display = IF isOpened THEN "block" ELSE "none"],
            i, "display")

\* the `opened` subscriber of _setupSubscriptions
openedSubscriber(w, i, isOpened) ==
    LET w0 == [w EXCEPT !.wd[i].steps = <<>>]
        hooked == IF ~w0.wd[i].initialized THEN w0
                  ELSE IF isOpened THEN Step(onPopoverOpen(w0, i), i, "hook")
                  ELSE Step(onPopoverClose(w0, i), i, "hook")
    IN IF isOpened
       THEN Step(WidgetEmit(Step([hooked EXCEPT !.wd[i].display = "block"], i, "display"),
                            i, "open", Void),
                 i, "emit")
       ELSE Step(WidgetEmit(Step([hooked EXCEPT !.wd[i].display = "none"], i, "display"),
                            i, "close", Void),
                 i, "emit")

\* StkProxyStateManager.set(key, value) for a key with one subscriber: store,
\* then notify; whether a set to the value already held notifies is a property
\* of the store (notifySame)
Notified(w, i, old, new) == notifySame \/ old # new

\* _stateManager.set('opened', v)
setOpened(w, i, v) ==
    LET w1 == [w EXCEPT !.wd[i].opened = v]
    IN IF Notified(w, i, w.wd[i].opened, v) THEN openedSubscriber(w1, i, v) ELSE w1

\* (variant: the popover is closed and close emitted whatever the state)
closeAlways(w, i) == openedSubscriber([w EXCEPT !.wd[i].opened = FALSE], i, FALSE)

\* close()
close(w, i) == setOpened(w, i, FALSE)

\* (variant: no check of `disabled`)
openUnguarded(w, i) == setOpened(w, i, TRUE)

\* open(): refused while disabled
open(w, i) == IF w.wd[i].disabled THEN w ELSE setOpened(w, i, TRUE)

\* toggle()
toggle(w, i) == IF w.wd[i].opened THEN close(w, i) ELSE open(w, i)

\* the `disabled` subscriber of _setupSubscriptions
disabledSubscriber(w, i, isDisabled) ==
    LET w1 == [w EXCEPT !.wd[i].rootDisabled = isDisabled]
    IN IF isDisabled THEN close(w1, i) ELSE w1

\* _stateManager.set('disabled', v)
setDisabled(w, i, v) ==
    LET w1 == [w EXCEPT !.wd[i].disabled = v]
    IN IF Notified(w, i, w.wd[i].disabled, v) THEN disabledSubscriber(w1, i, v) ELSE w1

\* disable() / enable()
disable(w, i) == setDisabled(w, i, TRUE)
enable(w, i) == setDisabled(w, i, FALSE)

\* (variant: every press closes)
onDocumentMouseDownAnywhere(w, i, isInsideWrapper, isInsidePopover) == close(w, i)

\* _onDocumentMouseDown: a press outside wrapper and popover closes
onDocumentMouseDown(w, i, isInsideWrapper, isInsidePopover) ==
    IF ~isInsideWrapper /\ ~isInsidePopover THEN close(w, i) ELSE w

\* _onRootKeyDown
onRootKeyDown(w, i, key) == IF key = "Escape" THEN close(w, i) ELSE w

\* a listener that destroy() removes: what it does to an event is done only
\* while the widget is not destroyed
removable(w, i, handled) == IF w.wd[i].destroyed THEN w ELSE handled

\* _onRootFocus
onRootFocus(w, i) == open(w, i)

\* _onRootMouseDown
onRootMouseDown(w, i) == IF ~w.wd[i].opened THEN open(w, i) ELSE w

\* _onArrowClick
onArrowClick(w, i) == toggle(w, i)

\* the BaseComponent constructor: the state as given, the two subscribers run
\* once at subscription (emitImmediately), then _initialized = true
construct(w, state) ==
    LET i == Len(w.wd) + 1
        w0 == [w EXCEPT !.wd = Append(@, state @@ [initialized |-> FALSE,
                                                   display |-> "",
                                                   rootDisabled |-> FALSE,
                                                   mounted |-> FALSE,
                                                   loadingShown |-> FALSE,
                                                   steps |-> <<>>,
                                                   rendered |-> <<>>,
                                                   dsUnsubscribers |-> <<>>,
                                                   destroyed |-> FALSE])]
        w1 == openedSubscriber(w0, i, state.opened)
        w2 == disabledSubscriber(w1, i, state.disabled)
    IN [w2 EXCEPT !.wd[i].initialized = TRUE]

\* what `new` gives: the world after the constructor ran and whether it threw
Returned(w) == [thrown |-> FALSE, w |-> w]
Thrown(w) == [thrown |-> TRUE, w |-> w]

\* (variant: the element is looked for after the widget has been built)
baseConstructorBuildingFirst(w, found, state) ==
    IF ~found THEN Thrown(construct(w, state)) ELSE Returned(construct(w, state))

\* the BaseComponent constructor from its first statement: the selector is
\* resolved (found: it resolves to an element) before anything is built
baseConstructor(w, found, state) ==
    IF ~found THEN Thrown(w) ELSE Returned(construct(w, state))

(* --------------------------- DropdownComponent ------------------------ *)

\* items.find(i => i.value === val)
Find(items, val) ==
    LET hits == {p \in 1..Len(items) : items[p].value = val}
    IN IF hits = {} THEN NoItem
       ELSE <<items[CHOOSE p \in hits : \A q \in hits : p <= q]>>

\* the state DropdownComponent passes to super(): closed, enabled, the items
\* given and the entry found for the initial value (no value: null)
DropdownState(items, initialValue) ==
    [kind |-> "dropdown", opened |-> FALSE, disabled |-> FALSE, dataItems |-> items,
     selectedItem |-> IF initialValue = NoItem THEN NoItem
                      ELSE Find(items, initialValue[1]),
     focusedIndex |-> -1]

\* _selectItem(item): set selectedItem, emit change
selectItem(w, i, item) ==
    WidgetEmit([w EXCEPT !.wd[i].selectedItem = <<item>>], i, "change", <<item>>)

\* (variant: a disabled match is selected as well)
valueOfAnyEntry(w, i, val) ==
    LET item == Find(w.wd[i].dataItems, val)
    IN IF item # NoItem THEN selectItem(w, i, item[1]) ELSE w

\* value(val): programmatic selection by value
value(w, i, val) ==
    LET item == Find(w.wd[i].dataItems, val)
    IN IF item # NoItem /\ ~item[1].disabled THEN selectItem(w, i, item[1]) ELSE w

\* (variant: the selection is kept whatever the new entries are)
setItemsKeepingSelection(w, i, items) == [w EXCEPT !.wd[i].dataItems = items]

\* setItems(items): replace dataItems; drop a selection that is no longer present
setItems(w, i, items) ==
    LET currentSelected == w.wd[i].selectedItem
        gone == /\ currentSelected # NoItem
                /\ ~ \E p \in 1..Len(items) : items[p].value = currentSelected[1].value
    IN renderAfterChange([w EXCEPT !.wd[i].dataItems = items,
                                   !.wd[i].selectedItem = IF gone THEN NoItem ELSE @],
                         i)

RECURSIVE Scan(_, _, _, _)
\* the while loop of _findNextEnabledIndex (indices count from 0)
Scan(nextIndex, step, currentIndex, items) ==
    IF nextIndex >= 0 /\ nextIndex < Len(items)
    THEN IF ~items[nextIndex + 1].disabled THEN nextIndex
         ELSE Scan(nextIndex + step, step, currentIndex, items)
    ELSE currentIndex

\* _findNextEnabledIndex(currentIndex, direction, items)
findNextEnabledIndex(currentIndex, direction, items) ==
    LET step == IF direction = "down" THEN 1 ELSE -1
    IN Scan(currentIndex + step, step, currentIndex, items)

\* the keydown listener of _setupDropdownKeyboard
dropdownKeyDown(w, i, key) ==
    LET items == w.wd[i].dataItems
        enabledItems == SelectSeq(items, LAMBDA x : ~x.disabled)
        currentFocusedIndex == w.wd[i].focusedIndex
    IN IF Len(enabledItems) = 0 THEN w
       ELSE IF key \in {"ArrowDown", "ArrowUp"}
       THEN IF ~w.wd[i].opened THEN open(w, i)
            ELSE [w EXCEPT !.wd[i].focusedIndex =
                     findNextEnabledIndex(currentFocusedIndex,
                                          IF key = "ArrowDown" THEN "down" ELSE "up",
                                          items)]
       ELSE IF key \in {" ", "Enter"}
       THEN IF /\ currentFocusedIndex >= 0
               /\ currentFocusedIndex < Len(items)
               /\ ~items[currentFocusedIndex + 1].disabled
            THEN close(selectItem(w, i, items[currentFocusedIndex + 1]), i)
            ELSE w
       ELSE w

\* a keydown event on the root input: the listener of BaseComponent, then the
\* one DropdownComponent added
dropdownRootKeyDown(w, i, key) ==
    dropdownKeyDown(removable(w, i, onRootKeyDown(w, i, key)), i, key)

\* the mousedown listener of _setupListListeners for a press on the rendered
\* entry `index` (the list shows dataItems; a disabled entry carries the
\* disabled class)
listMouseDown(w, i, index) ==
    LET item == w.wd[i].dataItems[index + 1]
    IN IF item.disabled THEN w ELSE close(selectItem(w, i, item), i)

\* a mousedown event on a rendered entry: the popover listener, then the
\* document listener, for which the entry is inside the popover only if the
\* list is still mounted
itemMouseDown(w, i, index) ==
    LET w1 == listMouseDown(w, i, index)
    IN onDocumentMouseDown(w1, i, FALSE, w1.wd[i].mounted)

showLoading(w, i) == [w EXCEPT !.wd[i].loadingShown = TRUE]
hideLoading(w, i) == [w EXCEPT !.wd[i].loadingShown = FALSE]

\* the three listeners _initDataSource subscribes on the DataSource
WidgetListener(w, f, payload) ==
    CASE f.kind = "wLoading" -> showLoading(w, f.id)
      [] f.kind = "wLoad" -> setItems(hideLoading(w, f.id), f.id, DataOf(payload))
      [] f.kind = "wError" -> hideLoading(w, f.id)

(* -------------------------- MultiselectComponent ---------------------- *)

\* items.filter(x => !x.disabled)
EnabledItems(items) == SelectSeq(items, LAMBDA x : ~x.disabled)

\* values.includes(v)
Includes(values, v) == \E k \in 1..Len(values) : values[k] = v

\* items.some(i => i.value === v)
SomeValue(items, v) == \E k \in 1..Len(items) : items[k].value = v

\* the lowercase letters of each entry text; a filter text is one letter
Letters ==
    [Apple |-> {"a", "p", "l", "e"}, Banana |-> {"b", "a", "n"},
     Orange |-> {"o", "r", "a", "n", "g", "e"}]

\* MultiselectComponent._applyFilter(items, filterText)
multiApplyFilter(items, filterText) ==
    IF filterText # ""
    THEN SelectSeq(items, LAMBDA item : filterText \in Letters[item.text])
    ELSE items

\* the state MultiselectComponent passes to super()
MultiselectState(items, values) ==
    LET initialSelected == SelectSeq(items, LAMBDA item : Includes(values, item.value))
    IN [kind |-> "multiselect", opened |-> FALSE, disabled |-> FALSE,
        dataItems |-> items, selectedItems |-> initialSelected,
        filterText |-> "", filteredItems |-> items,
        allSelected |-> (Len(initialSelected) = Len(items) /\ Len(items) > 0),
        focusedIndex |-> -1]

\* new MultiselectComponent(props): _initList puts the list element into the
\* popover and renders it; the text field is empty and no debounce timer is
\* pending
newMultiselect(w, items, values, showSelectAll, maxSelectedItems, tagMode) ==
    LET i == Len(w.wd) + 1
        w1 == construct(w, MultiselectState(items, values))
        w2 == renderItems([w1 EXCEPT !.wd[i].mounted = TRUE], i)
    IN [w2 EXCEPT !.wd[i] = @ @@ [showSelectAll |-> showSelectAll,
                                  maxSelectedItems |-> maxSelectedItems,
                                  tagMode |-> tagMode,
                                  text |-> "",
                                  timer |-> FALSE]]

\* _updateAllSelectedState()
updateAllSelectedState(w, i) ==
    LET enabledItems == EnabledItems(w.wd[i].dataItems)
    IN [w EXCEPT !.wd[i].allSelected =
            (Len(enabledItems) > 0 /\ Len(w.wd[i].selectedItems) = Len(enabledItems))]

\* _stateManager.set('selectedItems', v) with the selectedItems subscriber
\* (every caller passes a newly built array)
setSelectedItems(w, i, v) == updateAllSelectedState([w EXCEPT !.wd[i].selectedItems = v], i)

\* _stateManager.set('dataItems', v) with the dataItems subscriber
setDataItems(w, i, v) ==
    renderAfterChange([w EXCEPT !.wd[i].dataItems = v,
                                !.wd[i].filteredItems = multiApplyFilter(v, w.wd[i].filterText)],
                      i)

\* (variant: the select-all marker selects every entry, disabled ones too)
multiValueAllEntries(w, i, values) ==
    LET items == w.wd[i].dataItems
        selected == IF values = <<SELECT_ALL_VALUE>> THEN items
                    ELSE SelectSeq(items, LAMBDA item :
                            Includes(values, item.value) /\ ~item.disabled)
    IN WidgetEmit(updateAllSelectedState(setSelectedItems(w, i, selected), i),
                  i, "change", selected)

\* (variant: the selection is cut at maxSelectedItems)
multiValueLimited(w, i, values) ==
    LET items == w.wd[i].dataItems
        matched == IF values = <<SELECT_ALL_VALUE>> THEN EnabledItems(items)
                   ELSE SelectSeq(items, LAMBDA item :
                            Includes(values, item.value) /\ ~item.disabled)
        selected == IF Len(matched) > w.wd[i].maxSelectedItems
                    THEN SubSeq(matched, 1, w.wd[i].maxSelectedItems) ELSE matched
        w1 == updateAllSelectedState(setSelectedItems(w, i, selected), i)
    IN WidgetEmit([w1 EXCEPT !.wd[i].allSelected = (@ \/ values = <<SELECT_ALL_VALUE>>)],
                  i, "change", selected)

\* MultiselectComponent.value(values)
multiValue(w, i, values) ==
    LET items == w.wd[i].dataItems
    IN IF Len(values) = 1 /\ values[1] = SELECT_ALL_VALUE
       THEN LET enabledItems == EnabledItems(items)
                w1 == setSelectedItems(w, i, enabledItems)
            IN WidgetEmit([w1 EXCEPT !.wd[i].allSelected = TRUE], i, "change", enabledItems)
       ELSE IF Len(values) = 0
       THEN LET w1 == setSelectedItems(w, i, <<>>)
            IN WidgetEmit([w1 EXCEPT !.wd[i].allSelected = FALSE], i, "change", <<>>)
       ELSE LET selected == SelectSeq(items, LAMBDA item :
                                Includes(values, item.value) /\ ~item.disabled)
            IN WidgetEmit(updateAllSelectedState(setSelectedItems(w, i, selected), i),
                          i, "change", selected)

\* MultiselectComponent.setItems(items)
multiSetItems(w, i, items) ==
    LET w1 == setDataItems(w, i, items)
        newSelected == SelectSeq(w1.wd[i].selectedItems,
                                 LAMBDA sel : SomeValue(items, sel.value))
        w2 == setSelectedItems(w1, i, newSelected)
        w3 == renderAfterChange([w2 EXCEPT !.wd[i].filteredItems =
                                            multiApplyFilter(items, w2.wd[i].filterText)],
                                i)
    IN updateAllSelectedState(w3, i)

\* (variant: the limit is not looked at)
toggleItemWithoutLimit(w, i, item) ==
    LET selectedItems == w.wd[i].selectedItems
        isSelected == SomeValue(selectedItems, item.value)
        newSelected == IF isSelected
                       THEN SelectSeq(selectedItems, LAMBDA x : x.value # item.value)
                       ELSE Append(selectedItems, item)
    IN WidgetEmit(setSelectedItems(w, i, newSelected), i, "change", newSelected)

\* _toggleItem(item)
toggleItem(w, i, item) ==
    LET selectedItems == w.wd[i].selectedItems
        isSelected == SomeValue(selectedItems, item.value)
    IN IF isSelected
       THEN LET newSelected == SelectSeq(selectedItems, LAMBDA x : x.value # item.value)
            IN WidgetEmit(setSelectedItems(w, i, newSelected), i, "change", newSelected)
       ELSE IF Len(selectedItems) >= w.wd[i].maxSelectedItems THEN w
       ELSE LET newSelected == Append(selectedItems, item)
            IN WidgetEmit(setSelectedItems(w, i, newSelected), i, "change", newSelected)

\* _toggleSelectAll()
toggleSelectAll(w, i) ==
    IF w.wd[i].allSelected
    THEN LET w1 == setSelectedItems(w, i, <<>>)
         IN WidgetEmit([w1 EXCEPT !.wd[i].allSelected = FALSE], i, "change", <<>>)
    ELSE LET enabledItems == EnabledItems(w.wd[i].dataItems)
             w1 == setSelectedItems(w, i, enabledItems)
         IN WidgetEmit([w1 EXCEPT !.wd[i].allSelected = TRUE], i, "change", enabledItems)

\* (variant: the text field is not looked at)
multiBackspaceAnyText(w, i) ==
    LET selectedItems == w.wd[i].selectedItems
    IN IF Len(selectedItems) > 0
       THEN toggleItem(w, i, selectedItems[Len(selectedItems)])
       ELSE w

\* the Backspace case of the keydown listener
multiBackspace(w, i) ==
    LET selectedItems == w.wd[i].selectedItems
    IN IF w.wd[i].text = "" /\ Len(selectedItems) > 0
       THEN toggleItem(w, i, selectedItems[Len(selectedItems)])
       ELSE w

\* _stateManager.set('filterText', v) with the filterText subscriber
multiSetFilterText(w, i, v) ==
    LET w1 == [w EXCEPT !.wd[i].filterText = v]
    IN IF Notified(w, i, w.wd[i].filterText, v)
       THEN renderAfterChange(
                [w1 EXCEPT !.wd[i].filteredItems = multiApplyFilter(w.wd[i].dataItems, v),
                           !.wd[i].focusedIndex = -1],
                i)
       ELSE w1

\* the input listener of _setupMultiselectInput, after the user gave the
\* text field the value newText
multiInput(w, i, newText) ==
    LET w1 == [w EXCEPT !.wd[i].text = newText, !.wd[i].timer = TRUE]
    IN IF ~w1.wd[i].opened THEN open(w1, i) ELSE w1

\* the debounce callback
multiTimer(w, i) ==
    [multiSetFilterText(w, i, w.wd[i].text) EXCEPT !.wd[i].timer = FALSE]

\* the keydown listener of _setupMultiselectKeyboard
multiKeyDown(w, i, key) ==
    LET filteredItems == w.wd[i].filteredItems
        currentFocusedIndex == w.wd[i].focusedIndex
    IN IF key = "Backspace" THEN multiBackspace(w, i)
       ELSE IF key \in {"ArrowDown", "ArrowUp"}
       THEN IF ~w.wd[i].opened THEN open(w, i)
            ELSE IF Len(filteredItems) = 0 THEN w
            ELSE [w EXCEPT !.wd[i].focusedIndex =
                     findNextEnabledIndex(currentFocusedIndex,
                                          IF key = "ArrowDown" THEN "down" ELSE "up",
                                          filteredItems)]
       ELSE IF key \in {" ", "Enter"}
       THEN IF /\ currentFocusedIndex >= 0
               /\ currentFocusedIndex < Len(filteredItems)
               /\ ~filteredItems[currentFocusedIndex + 1].disabled
            THEN toggleItem(w, i, filteredItems[currentFocusedIndex + 1])
            ELSE w
       ELSE w

\* the row a press lands on: -1 is the select-all row, index >= 0 an entry of
\* filteredItems; only an entry row can carry the disabled class
HasDisabledClass(w, i, index) == index >= 0 /\ w.wd[i].filteredItems[index + 1].disabled

\* the mousedown listener of _initList for a press on the rendered row `index`
multiListMouseDown(w, i, index) ==
    IF HasDisabledClass(w, i, index)
    THEN LET item == w.wd[i].filteredItems[index + 1]
         IN IF item.value = SELECT_ALL_VALUE THEN toggleSelectAll(w, i)
            ELSE toggleItem(w, i, item)
    ELSE w

\* a mousedown event on a rendered row: the list listener, then the document
\* listener, for which the pressed row is inside the popover unless the list
\* was rendered anew in between
multiRowMouseDown(w, i, index) ==
    LET w1 == multiListMouseDown(w, i, index)
    IN onDocumentMouseDown(w1, i, FALSE, w1 = w)

\* the mousedown listener of a tag's remove button (_renderTags); k is the
\* position of the tag; the event does not propagate
tagMouseDown(w, i, k) ==
    IF w.wd[i].tagMode = "single"
    THEN LET w1 == setSelectedItems(w, i, <<>>)
         IN WidgetEmit([w1 EXCEPT !.wd[i].allSelected = FALSE], i, "change", <<>>)
    ELSE toggleItem(w, i, w.wd[i].selectedItems[k])

(* --------------------------- ComboboxComponent ------------------------ *)

\* String.prototype.toLowerCase, character by character
LowerChar(c) ==
    CASE c = "A" -> "a" [] c = "B" -> "b" [] c = "N" -> "n" [] c = "O" -> "o"
      [] c = "P" -> "p" [] OTHER -> c
ToLowerCase(text) == [k \in 1..Len(text) |-> LowerChar(text[k])]

\* String.prototype.startsWith / includes
StartsWith(text, part) == Len(part) <= Len(text) /\ SubSeq(text, 1, Len(part)) = part
StringIncludes(text, part) ==
    \E from \in 0..(Len(text) - Len(part)) : SubSeq(text, from + 1, from + Len(part)) = part

\* (variant: the texts are compared as written)
comboApplyFilterCaseSensitive(rec, items, filterText) ==
    IF filterText = <<>> \/ Len(filterText) < rec.minFilterLength THEN items
    ELSE IF rec.filterStrategy = "none" THEN items
    ELSE SelectSeq(items, LAMBDA item :
             IF rec.filterStrategy = "startsWith"
             THEN StartsWith(CharsOf[item.text], filterText)
             ELSE StringIncludes(CharsOf[item.text], filterText))

\* ComboboxComponent._applyFilter(items, filterText), for the strategy and the
\* minimum length the widget rec was built with
comboApplyFilter(rec, items, filterText) ==
    IF filterText = <<>> \/ Len(filterText) < rec.minFilterLength THEN items
    ELSE IF rec.filterStrategy = "none" THEN items
    ELSE LET normalizedFilter == ToLowerCase(filterText)
         IN SelectSeq(items, LAMBDA item :
                LET normalizedText == ToLowerCase(CharsOf[item.text])
                IN IF rec.filterStrategy = "startsWith"
                   THEN StartsWith(normalizedText, normalizedFilter)
                   ELSE StringIncludes(normalizedText, normalizedFilter))

\* the state ComboboxComponent passes to super()
ComboboxState(items, initialValue) ==
    [kind |-> "combobox", opened |-> FALSE, disabled |-> FALSE, dataItems |-> items,
     selectedItem |-> IF initialValue = NoItem THEN NoItem
                      ELSE Find(items, initialValue[1]),
     focusedIndex |-> -1, filterText |-> <<>>, filteredItems |-> items]

\* selectedItem?.text ?? ''
TextOf(selectedItem) == IF selectedItem = NoItem THEN <<>> ELSE CharsOf[selectedItem[1].text]

\* new ComboboxComponent(props); text is the value of the root input, timer
\* whether a debounce timer is pending; typed (the value the user last gave
\* the input), seen (what a filtering listener found when it was called) and
\* settled (an entry was selected, and since then the user has not typed and
\* filter() was not called) are observations
newCombobox(w, items, initialValue, filter, minFilterLength) ==
    LET i == Len(w.wd) + 1
        w1 == construct(w, ComboboxState(items, initialValue))
    IN [w1 EXCEPT !.wd[i] = @ @@ [filterStrategy |-> filter,
                                  minFilterLength |-> minFilterLength,
                                  text |-> TextOf(w1.wd[i].selectedItem),
                                  timer |-> FALSE,
                                  typed |-> <<>>,
                                  seen |-> <<>>,
                                  settled |-> FALSE]]

\* this.emit('filtering', filterText), and what its listeners find
emitFiltering(w, i, filterText) ==
    WidgetEmit([w EXCEPT !.wd[i].seen = <<[filteredItems |-> w.wd[i].filteredItems,
                                           focusedIndex |-> w.wd[i].focusedIndex]>>],
               i, "filtering", filterText)

\* (variant: the event is emitted before the state is updated)
filterTextSubscriberEmitFirst(w, i, filterText) ==
    LET w1 == emitFiltering(w, i, filterText)
        filtered == comboApplyFilter(w.wd[i], w.wd[i].dataItems, filterText)
    IN [w1 EXCEPT !.wd[i].filteredItems = filtered, !.wd[i].focusedIndex = -1]

\* the filterText subscriber
filterTextSubscriber(w, i, filterText) ==
    LET filtered == comboApplyFilter(w.wd[i], w.wd[i].dataItems, filterText)
        w1 == renderAfterChange([w EXCEPT !.wd[i].filteredItems = filtered], i)
        w2 == [w1 EXCEPT !.wd[i].focusedIndex = -1]
    IN emitFiltering(w2, i, filterText)

\* _stateManager.set('filterText', v)
setFilterText(w, i, v) ==
    LET w1 == [w EXCEPT !.wd[i].filterText = v]
    IN IF Notified(w, i, w.wd[i].filterText, v) THEN filterTextSubscriber(w1, i, v) ELSE w1

\* _stateManager.set('selectedItem', v) with the selectedItem subscriber
setSelectedItem(w, i, v) ==
    LET w1 == [w EXCEPT !.wd[i].selectedItem = v]
    IN IF Notified(w, i, w.wd[i].selectedItem, v)
       THEN [w1 EXCEPT !.wd[i].text = TextOf(v)] ELSE w1

\* ComboboxComponent._selectItem(item)
comboSelectItem(w, i, item) ==
    LET w1 == setSelectedItem(w, i, <<item>>)
        w2 == setFilterText(w1, i, <<>>)
        w3 == renderAfterChange([w2 EXCEPT !.wd[i].filteredItems = w2.wd[i].dataItems,
                                           !.wd[i].settled = TRUE],
                                i)
    IN WidgetEmit(w3, i, "change", <<item>>)

\* ComboboxComponent.value(val)
comboValue(w, i, val) ==
    LET item == Find(w.wd[i].dataItems, val)
    IN IF item # NoItem /\ ~item[1].disabled THEN comboSelectItem(w, i, item[1]) ELSE w

\* ComboboxComponent.setItems(items)
comboSetItems(w, i, items) ==
    LET filterText == w.wd[i].filterText
        w1 == renderAfterChange(
                  [w EXCEPT !.wd[i].dataItems = items,
                            !.wd[i].filteredItems = comboApplyFilter(w.wd[i], items, filterText)],
                  i)
        currentSelected == w1.wd[i].selectedItem
    IN IF currentSelected # NoItem /\ ~SomeValue(items, currentSelected[1].value)
       THEN [setSelectedItem(w1, i, NoItem) EXCEPT !.wd[i].text = <<>>]
       ELSE w1

\* ComboboxComponent.filter(text)
comboFilter(w, i, text) == setFilterText([w EXCEPT !.wd[i].settled = FALSE], i, text)

\* the input listener of _setupComboboxInput, after the user gave the input
\* the value newText
comboInput(w, i, newText) ==
    LET w0 == [w EXCEPT !.wd[i].text = newText, !.wd[i].typed = newText,
                        !.wd[i].settled = FALSE]
        w1 == IF w0.wd[i].selectedItem # NoItem THEN setSelectedItem(w0, i, NoItem) ELSE w0
        w2 == [w1 EXCEPT !.wd[i].timer = TRUE]
    IN IF ~w2.wd[i].opened THEN open(w2, i) ELSE w2

\* the debounce callback
comboTimer(w, i) ==
    [setFilterText(w, i, w.wd[i].text) EXCEPT !.wd[i].timer = FALSE]

\* (variant: Space selects like Enter)
comboKeyDownWithSpace(w, i, key) ==
    LET filteredItems == w.wd[i].filteredItems
        currentFocusedIndex == w.wd[i].focusedIndex
    IN IF Len(filteredItems) = 0 THEN w
       ELSE IF key \in {"ArrowDown", "ArrowUp"}
       THEN IF ~w.wd[i].opened THEN open(w, i)
            ELSE [w EXCEPT !.wd[i].focusedIndex =
                     findNextEnabledIndex(currentFocusedIndex,
                                          IF key = "ArrowDown" THEN "down" ELSE "up",
                                          filteredItems)]
       ELSE IF key \in {"Enter", " "}
       THEN IF /\ currentFocusedIndex >= 0
               /\ currentFocusedIndex < Len(filteredItems)
               /\ ~filteredItems[currentFocusedIndex + 1].disabled
            THEN close(comboSelectItem(w, i, filteredItems[currentFocusedIndex + 1]), i)
            ELSE w
       ELSE w

\* the keydown listener of _setupComboboxKeyboard
comboKeyDown(w, i, key) ==
    LET filteredItems == w.wd[i].filteredItems
        currentFocusedIndex == w.wd[i].focusedIndex
    IN IF Len(filteredItems) = 0 THEN w
       ELSE IF key \in {"ArrowDown", "ArrowUp"}
       THEN IF ~w.wd[i].opened THEN open(w, i)
            ELSE [w EXCEPT !.wd[i].focusedIndex =
                     findNextEnabledIndex(currentFocusedIndex,
                                          IF key = "ArrowDown" THEN "down" ELSE "up",
                                          filteredItems)]
       ELSE IF key = "Enter"
       THEN IF /\ currentFocusedIndex >= 0
               /\ currentFocusedIndex < Len(filteredItems)
               /\ ~filteredItems[currentFocusedIndex + 1].disabled
            THEN close(comboSelectItem(w, i, filteredItems[currentFocusedIndex + 1]), i)
            ELSE w
       ELSE w

\* the mousedown listener on popoverWrapper, for a press on the rendered
\* entry `index` of filteredItems
comboListMouseDown(w, i, index) ==
    LET item == w.wd[i].filteredItems[index + 1]
    IN IF item.disabled THEN w ELSE close(comboSelectItem(w, i, item), i)

\* a mousedown event on a rendered entry: the popover listener, then the
\* document listener
comboItemMouseDown(w, i, index) ==
    LET w1 == comboListMouseDown(w, i, index)
    IN onDocumentMouseDown(w1, i, FALSE, w1.wd[i].mounted)

\* a keydown event on the root element: the BaseComponent listener, then the
\* listener of the subclass
rootKeyDown(w, i, key) ==
    IF w.wd[i].kind = "multiselect"
    THEN multiKeyDown(removable(w, i, onRootKeyDown(w, i, key)), i, key)
    ELSE IF w.wd[i].kind = "combobox"
    THEN comboKeyDown(removable(w, i, onRootKeyDown(w, i, key)), i, key)
    ELSE dropdownRootKeyDown(w, i, key)

(* ------------------------------- emit --------------------------------- *)

RECURSIVE ForEach(_, _, _, _, _, _, _)
RECURSIVE Invoke(_, _, _, _, _, _)

\* emit(event, payload): this._eventHandlers[event]?.forEach(cb => cb(payload))
emitAt(w, event, payload, depth) ==
    IF w.eventHandlers[event] = 0 THEN w
    ELSE LET a == w.eventHandlers[event]
         IN ForEach(w, a, 1, Len(w.subs[a]), event, payload, depth)

\* Array.prototype.forEach: the length is read once, an index that no longer
\* exists when it is reached is skipped, elements appended meanwhile are not seen
ForEach(w, a, k, len, event, payload, depth) ==
    IF k > len THEN w
    ELSE IF k > Len(w.subs[a]) THEN ForEach(w, a, k + 1, len, event, payload, depth)
    ELSE ForEach(Invoke(w, w.subs[a][k], Fn(w, w.subs[a][k]), event, payload, depth),
                 a, k + 1, len, event, payload, depth)

\* the call recorded for a user callback
Recorded(w, r, f, event, payload, depth) ==
    [w EXCEPT !.calls = Append(@, [reg |-> r, cb |-> f, ev |-> event,
                                   payload |-> payload, depth |-> depth]),
              !.regs[r].n = @ + 1]

\* cb(payload) for the function f of registration r
Invoke(w, r, f, event, payload, depth) ==
    CASE f.kind = "wrapped" ->
            \* callback(payload); unsubscribe();
            unsubscribe(Invoke(w, r, f.inner[1], event, payload, depth), r)
      [] f.kind = "emit" ->
            LET w1 == Recorded(w, r, f, event, payload, depth)
            IN IF depth = 0 THEN emitAt(w1, event, payload, depth + 1) ELSE w1
      [] f.kind \in {"wLoading", "wLoad", "wError"} ->
            WidgetListener(Recorded(w, r, f, event, payload, depth), f, payload)
      [] OTHER -> Recorded(w, r, f, event, payload, depth)

emit(w, event, payload) == emitAt(w, event, payload, 0)

(* ------------------------------ DataSource ---------------------------- *)

\* (variant: the force flag read the wrong way round)
CacheValidInverted(c, force) == c # Null /\ force

\* `this._cache !== null && !force`
CacheValid(c, force) == c # Null /\ ~force

\* (variant: the array test never succeeds)
IsStaticNever(inp) == FALSE

\* Array.isArray(this._input)
IsStatic(inp) == inp.kind = "static"

\* typeof this._input === 'function'
IsFactory(inp) == inp.kind = "factory"

\* an event emitted by a fetch invocation (sync: before its first await)
Ev(rec, event, payload, sync) ==
    [rec EXCEPT !.events = Append(@, [ev |-> event, payload |-> payload, sync |-> sync])]

\* (variant: the failure is swallowed without an error event)
RejectedSilently(w, rec, sync) ==
    [w EXCEPT !.loading = FALSE,
              !.last = [rec EXCEPT !.status = "fail", !.ret = Err],
              !.hist.clean = @ /\ rec.id # 1]

\* (variant: the catch block also drops the cache)
RejectedDroppingCache(w, rec, sync) ==
    emit([w EXCEPT !.loading = FALSE,
                   !.cache = Null,
                   !.last = Ev([rec EXCEPT !.status = "fail", !.ret = Err],
                               "error", Err, sync),
                   !.hist.clean = @ /\ rec.id # 1],
         "error", Err)

\* the catch block: clear the flag, emit error, rethrow
Rejected(w, rec, sync) ==
    emit([w EXCEPT !.loading = FALSE,
                   !.last = Ev([rec EXCEPT !.status = "fail", !.ret = Err],
                               "error", Err, sync),
                   !.hist.clean = @ /\ rec.id # 1],
         "error", Err)

\* (variant: data that arrives when the cache is filled is not stored)
FulfilledKeepingCache(w, rec, data) ==
    emit([w EXCEPT !.cache = IF @ = Null THEN data ELSE @,
                   !.loading = FALSE,
                   !.last = Ev([rec EXCEPT !.status = "ok", !.ret = data],
                               "load", data, FALSE)],
         "load", data)

\* (variant: the data is announced but not stored)
FulfilledWithoutStoring(w, rec, data) ==
    emit([w EXCEPT !.loading = FALSE,
                   !.last = Ev([rec EXCEPT !.status = "ok", !.ret = data],
                               "load", data, FALSE)],
         "load", data)

\* after `await promise` fulfilled with data: cache it, clear the flag, emit load
Fulfilled(w, rec, data) ==
    emit([w EXCEPT !.cache = data,
                   !.loading = FALSE,
                   !.last = Ev([rec EXCEPT !.status = "ok", !.ret = data],
                               "load", data, FALSE)],
         "load", data)

\* the record of a new invocation, and the history counters after the call
NewFetch(w, force, afterInvalidate) ==
    [id |-> w.hist.nFetch + 1, force |-> force, hit |-> w.cache,
     afterInvalidate |-> afterInvalidate, overlap |-> w.fetches # <<>>,
     path |-> "cache", events |-> <<>>, called |-> FALSE, status |-> "ok",
     ret |-> w.cache]

Counted(w, force) ==
    [w EXCEPT !.hist.nFetch = @ + 1,
              !.hist.nForce = IF force THEN @ + 1 ELSE @,
              !.hist.firstForced = IF w.hist.nFetch = 0 THEN force ELSE @,
              !.hist.clean = @ /\ w.fetches = <<>>]

\* what is kept of an invocation while it is suspended at `await`
Suspended(rec) == [rec EXCEPT !.hit = Null, !.overlap = FALSE]

\* fetch(force): the part that runs synchronously inside the call; an
\* invocation that reaches `await` is appended to the suspended ones.
\* thrown: the factory throws instead of returning a promise.
fetch(w, force, thrown, afterInvalidate) ==
    LET rec == NewFetch(w, force, afterInvalidate)
        w0 == Counted(w, force)
    IN IF CacheValid(w.cache, force)
       THEN [w0 EXCEPT !.last = rec]
       ELSE IF IsStatic(w.input)
       THEN emit([w0 EXCEPT !.cache = w.input.data,
                            !.last = Ev([rec EXCEPT !.path = "static",
                                                    !.ret = w.input.data],
                                        "load", w.input.data, TRUE)],
                 "load", w.input.data)
       ELSE LET r1 == Ev([rec EXCEPT !.path = "async", !.status = "pending",
                                     !.ret = Null],
                         "loading", Void, TRUE)
                w1 == emit([w0 EXCEPT !.loading = TRUE, !.last = r1], "loading", Void)
            IN IF IsFactory(w.input)
               THEN LET r2 == [r1 EXCEPT !.called = TRUE]
                        w2 == [w1 EXCEPT !.factoryCalls = @ + 1, !.last = r2]
                    IN IF thrown THEN Rejected(w2, r2, TRUE)
                       ELSE [w2 EXCEPT !.fetches = Append(@, Suspended(r2))]
               ELSE [w1 EXCEPT !.fetches = Append(@, Suspended(r1))]

\* the continuation of the k-th suspended invocation once its promise settled
resume(w, k, ok, data) ==
    LET rec == w.fetches[k]
        w0 == [w EXCEPT !.fetches = Splice(@, k)]
    IN IF ok THEN Fulfilled(w0, rec, data) ELSE Rejected(w0, rec, FALSE)

\* (variant: the cache is left in place)
invalidateNothing(w) == [w EXCEPT !.hist.clean = FALSE]

\* invalidate()
invalidate(w) == [w EXCEPT !.cache = Null, !.hist.clean = FALSE]

(* ----------------------- BaseComponent + DataSource ------------------- *)

\* _initDataSource(ds) of widget i
initDataSource(w, i, thrown, afterInvalidate) ==
    LET w1 == on(w, "loading", WidgetCb("wLoading", i))
        w2 == on(w1, "load", WidgetCb("wLoad", i))
        w3 == [on(w2, "error", WidgetCb("wError", i))
                 EXCEPT !.wd[i].dsUnsubscribers =
                            <<Len(w.regs) + 1, Len(w.regs) + 2, Len(w.regs) + 3>>]
        cached == w3.cache
    IN IF cached # Null THEN setItems(w3, i, DataOf(cached))
       ELSE fetch(w3, FALSE, thrown, afterInvalidate)

\* new DropdownComponent({selector, dataSource})
newDropdownWithDataSource(w, thrown, afterInvalidate) ==
    LET i == Len(w.wd) + 1
    IN initDataSource(construct(w, DropdownState(<<>>, NoItem)),
                      i, thrown, afterInvalidate)

\* new DropdownComponent(props); props.items and props.dataSource are <<>>
\* when the property is not given, <<x>> when it is
newDropdown(w, props, thrown, afterInvalidate) ==
    IF props.items # <<>> /\ props.dataSource # <<>> THEN Thrown(w)
    ELSE LET initialItems == IF props.items # <<>> THEN props.items[1] ELSE <<>>
             built == baseConstructor(w, props.found, DropdownState(initialItems, NoItem))
         IN IF built.thrown \/ props.dataSource = <<>> THEN built
            ELSE Returned(initDataSource(built.w, Len(w.wd) + 1, thrown, afterInvalidate))

\* this._dsUnsubscribers.forEach((unsub) => unsub())
RECURSIVE unsubscribeEach(_, _)
unsubscribeEach(w, unsubs) ==
    IF unsubs = <<>> THEN w
    ELSE unsubscribeEach(unsubscribe(w, Head(unsubs)), Tail(unsubs))

\* (variant: the DataSource listeners are left subscribed)
destroyKeepingListeners(w, i) == [w EXCEPT !.wd[i].destroyed = TRUE]

\* destroy() of widget i: the listeners of BaseComponent are removed from the
\* document, the root input and the arrow button; the three DataSource
\* listeners are unsubscribed; the root input goes back where it was
destroy(w, i) ==
    LET w1 == unsubscribeEach(w, w.wd[i].dsUnsubscribers)
    IN [w1 EXCEPT !.wd[i].destroyed = TRUE, !.wd[i].dsUnsubscribers = <<>>]

(* ------------------------------ bus driver ---------------------------- *)

SetWorld(w) ==
    /\ eventHandlers' = w.eventHandlers
    /\ subs' = w.subs
    /\ regs' = w.regs
    /\ calls' = w.calls
    /\ input' = w.input
    /\ cache' = w.cache
    /\ loading' = w.loading
    /\ factoryCalls' = w.factoryCalls
    /\ fetches' = w.fetches
    /\ last' = w.last
    /\ hist' = w.hist
    /\ wd' = w.wd
    /\ emitted' = w.emitted

NoFetch ==
    [id |-> 0, force |-> FALSE, hit |-> Null, afterInvalidate |-> FALSE,
     overlap |-> FALSE, path |-> "none", events |-> <<>>, called |-> FALSE,
     status |-> "none", ret |-> Null]

Fresh(w) == [w EXCEPT !.calls = <<>>, !.emitted = <<>>, !.last = NoFetch]

CanRegister(event) ==
    /\ Len(regs) < MaxRegs
    /\ (eventHandlers[event] = 0 => Len(subs) < MaxArrs)

NoOp == [op |-> "none", ev |-> "greet", reg |-> 0, payload |-> "hello",
         live |-> <<>>, nth |-> 0,
         id |-> 0, ok |-> TRUE, cacheBefore |-> Null, wdBefore |-> <<>>,
         arg |-> <<>>]

BusOn ==
    \E event \in BusEvents, callback \in BusCallbacks :
        /\ CanRegister(event)
        /\ SetWorld(on(Fresh(World), event, callback))
        /\ lastOp' = [NoOp EXCEPT !.op = "on", !.ev = event, !.reg = Len(regs) + 1]
        /\ UNCHANGED <<emits, unsubCalls, sinceInvalidate, notifySame>>

BusOnce ==
    \E event \in BusEvents, callback \in BusCallbacks :
        /\ CanRegister(event)
        /\ SetWorld(once(Fresh(World), event, callback))
        /\ lastOp' = [NoOp EXCEPT !.op = "once", !.ev = event, !.reg = Len(regs) + 1]
        /\ UNCHANGED <<emits, unsubCalls, sinceInvalidate, notifySame>>

BusOff ==
    \E event \in BusEvents :
        /\ eventHandlers[event] # 0
        /\ SetWorld(off(Fresh(World), event))
        /\ lastOp' = [NoOp EXCEPT !.op = "off", !.ev = event]
        /\ UNCHANGED <<emits, unsubCalls, sinceInvalidate, notifySame>>

\* registrations held by the array of registration r
ArrOf(w, r) == w.subs[w.regs[r].arr]

BusUnsubscribe ==
    \E r \in 1..Len(regs) :
        /\ unsubCalls < MaxUnsubs
        /\ LET w0 == Fresh(World)
               w1 == unsubscribe(w0, r)
               w2 == [w1 EXCEPT !.regs[r].unsubs = @ + 1,
                                !.regs[r].early = IF regs[r].unsubs = 0
                                                  THEN regs[r].n = 0 ELSE @]
           IN /\ SetWorld(w2)
              /\ lastOp' = [NoOp EXCEPT !.op = "unsubscribe", !.ev = regs[r].ev, !.reg = r,
                                        !.live = ArrOf(w0, r),
                                        !.nth = regs[r].unsubs + 1]
        /\ unsubCalls' = unsubCalls + 1
        /\ UNCHANGED <<emits, sinceInvalidate, notifySame>>

\* the handlers held for an event: the registrations of its array, in order
Subscribed(event) ==
    IF eventHandlers[event] = 0 THEN <<>> ELSE subs[eventHandlers[event]]

BusEmit ==
    \E event \in BusEvents, payload \in Payloads :
        /\ emits < MaxEmits
        /\ SetWorld(emit(Fresh(World), event, payload))
        /\ lastOp' = [NoOp EXCEPT !.op = "emit", !.ev = event, !.payload = payload,
                                  !.live = Subscribed(event)]
        /\ emits' = emits + 1
        /\ UNCHANGED <<unsubCalls, sinceInvalidate, notifySame>>

\* no emitter subscriptions, no DataSource activity, no widget
NoWorld ==
    [eventHandlers |-> [e \in Events |-> 0], subs |-> <<>>, regs |-> <<>>, calls |-> <<>>,
     input |-> [kind |-> "static", data |-> 1, ok |-> TRUE], cache |-> Null,
     loading |-> FALSE, factoryCalls |-> 0, fetches |-> <<>>, last |-> NoFetch,
     hist |-> [nFetch |-> 0, nForce |-> 0, firstForced |-> FALSE, clean |-> TRUE],
     wd |-> <<>>, emitted |-> <<>>]

InitCommon ==
    /\ eventHandlers = [e \in Events |-> 0]
    /\ subs = <<>>
    /\ regs = <<>>
    /\ calls = <<>>
    /\ lastOp = NoOp
    /\ emits = 0
    /\ unsubCalls = 0
    /\ loading = FALSE
    /\ factoryCalls = 0
    /\ fetches = <<>>
    /\ last = NoFetch
    /\ hist = [nFetch |-> 0, nForce |-> 0, firstForced |-> FALSE, clean |-> TRUE]
    /\ sinceInvalidate = FALSE

\* a bare emitter: no DataSource input is involved
InitBus ==
    /\ InitCommon
    /\ emitted = <<>>
    /\ notifySame = FALSE
    /\ input = [kind |-> "factory", data |-> Null, ok |-> TRUE]
    /\ cache = Null
    /\ wd = <<>>

NextBus == BusOn \/ BusOnce \/ BusOff \/ BusUnsubscribe \/ BusEmit

SpecBus == InitBus /\ [][NextBus]_vars

(* --------------------------- DataSource driver ------------------------ *)

\* the factory can throw only where it is invoked
MayThrow(thrown, force) ==
    thrown => (IsFactory(input) /\ ~CacheValid(cache, force))

DSFetch ==
    \E force \in BOOLEAN, thrown \in BOOLEAN :
        /\ hist.nFetch < MaxFetches
        /\ MayThrow(thrown, force)
        /\ SetWorld(fetch(Fresh(World), force, thrown, sinceInvalidate))
        /\ lastOp' = [NoOp EXCEPT !.op = "fetch", !.id = hist.nFetch + 1]
        /\ sinceInvalidate' = FALSE
        /\ UNCHANGED <<emits, unsubCalls, notifySame>>

\* the outcomes the awaited promise of invocation id can have: the one-shot
\* promise has one outcome for all its awaiters, who resume in call order
Outcomes(k) ==
    IF IsFactory(input) THEN [ok : {TRUE}, data : CollIds] \cup [ok : {FALSE}, data : {Null}]
    ELSE IF k = 1
         THEN {[ok |-> input.ok, data |-> IF input.ok THEN input.data ELSE Null]}
         ELSE {}

DSSettle ==
    \E k \in 1..Len(fetches) :
        \E o \in Outcomes(k) :
            /\ SetWorld(resume(Fresh(World), k, o.ok, o.data))
            /\ lastOp' = [NoOp EXCEPT !.op = "settle", !.id = fetches[k].id, !.ok = o.ok,
                                      !.cacheBefore = cache, !.wdBefore = wd]
            /\ UNCHANGED <<emits, unsubCalls, sinceInvalidate, notifySame>>

DSInvalidate ==
    /\ SetWorld(invalidate(Fresh(World)))
    /\ lastOp' = [NoOp EXCEPT !.op = "invalidate"]
    /\ sinceInvalidate' = TRUE
    /\ UNCHANGED <<emits, unsubCalls, notifySame>>

DSAttach ==
    \E thrown \in BOOLEAN :
        /\ Len(wd) < MaxWidgets
        /\ cache = Null => hist.nFetch < MaxFetches
        /\ thrown => (cache = Null /\ IsFactory(input))
        /\ SetWorld(newDropdownWithDataSource(Fresh(World), thrown, sinceInvalidate))
        /\ lastOp' = [NoOp EXCEPT !.op = "attach", !.id = Len(wd) + 1]
        /\ sinceInvalidate' = (sinceInvalidate /\ cache # Null)
        /\ UNCHANGED <<emits, unsubCalls, notifySame>>

\* the constructor arguments: a selector that resolves or not, items given or
\* not, the DataSource given or not
Props ==
    [found : BOOLEAN, items : {<<>>, <<DataOf(1)>>}, dataSource : {<<>>, <<"ds">>}]

\* new DropdownComponent(props) for the props DSAttach does not cover
DSNew ==
    \E props \in Props :
        /\ Len(wd) < MaxWidgets
        /\ ~(props.found /\ props.items = <<>> /\ props.dataSource # <<>>)
        /\ LET res == newDropdown(Fresh(World), props, FALSE, sinceInvalidate)
           IN /\ SetWorld(res.w)
              /\ lastOp' = [NoOp EXCEPT !.op = "new", !.ok = ~res.thrown,
                                        !.wdBefore = wd,
                                        !.arg = <<props, World>>]
        /\ UNCHANGED <<emits, unsubCalls, sinceInvalidate, notifySame>>

DSValue ==
    \E i \in 1..Len(wd), val \in Values :
        /\ SetWorld(value(Fresh(World), i, val))
        /\ lastOp' = [NoOp EXCEPT !.op = "value", !.id = i]
        /\ UNCHANGED <<emits, unsubCalls, sinceInvalidate, notifySame>>

\* new DataSource(input): a static array goes straight into the cache (no
\* operation of this specification sets a key of a state store)
InitDS ==
    /\ InitCommon
    /\ emitted = <<>>
    /\ notifySame = FALSE
    /\ input \in Inputs
    /\ cache = IF IsStatic(input) THEN input.data ELSE Null
    /\ wd = <<>>

NextDS == DSFetch \/ DSSettle \/ DSInvalidate \/ DSAttach \/ DSNew \/ DSValue

SpecDS == InitDS /\ [][NextDS]_vars

(* ----------------------------- widget driver -------------------------- *)

Keys == {"Escape", "Tab", "ArrowDown", "ArrowUp", "Enter", " ", "Backspace"}

WidgetOp(name) == [NoOp EXCEPT !.op = name, !.id = 1, !.wdBefore = wd]

Stamp(name) ==
    /\ lastOp' = WidgetOp(name)
    /\ UNCHANGED <<emits, unsubCalls, sinceInvalidate, notifySame>>

\* the same, for an operation with an argument
StampArg(name, arg) ==
    /\ lastOp' = [WidgetOp(name) EXCEPT !.arg = <<arg>>]
    /\ UNCHANGED <<emits, unsubCalls, sinceInvalidate, notifySame>>

WOpen ==
    /\ SetWorld(open(Fresh(World), 1))
    /\ Stamp("open")
WClose ==
    /\ SetWorld(close(Fresh(World), 1))
    /\ Stamp("close")
WToggle ==
    /\ SetWorld(toggle(Fresh(World), 1))
    /\ Stamp("toggle")
WDisable ==
    /\ SetWorld(disable(Fresh(World), 1))
    /\ Stamp("disable")
WEnable ==
    /\ SetWorld(enable(Fresh(World), 1))
    /\ Stamp("enable")
WRootFocus ==
    /\ SetWorld(onRootFocus(Fresh(World), 1))
    /\ Stamp("rootFocus")
WRootMouseDown ==
    /\ SetWorld(onRootMouseDown(Fresh(World), 1))
    /\ Stamp("rootMouseDown")
WArrowClick ==
    /\ SetWorld(onArrowClick(Fresh(World), 1))
    /\ Stamp("arrowClick")

WDocumentMouseDown ==
    \E isInsideWrapper \in BOOLEAN, isInsidePopover \in BOOLEAN :
        /\ ~(isInsideWrapper /\ isInsidePopover)
        /\ SetWorld(onDocumentMouseDown(Fresh(World), 1, isInsideWrapper, isInsidePopover))
        /\ Stamp(IF isInsideWrapper \/ isInsidePopover THEN "pressInside"
                 ELSE "pressOutside")

WRootKeyDown ==
    \E key \in Keys :
        /\ SetWorld(rootKeyDown(Fresh(World), 1, key))
        /\ Stamp(IF key = "Escape" THEN "escape"
                 ELSE IF key = "Tab" THEN "keyDown" ELSE key)

WItemMouseDown ==
    \E index \in 0..(MaxLen - 1) :
        /\ wd[1].kind = "dropdown"
        /\ wd[1].mounted
        /\ index < Len(wd[1].dataItems)
        /\ SetWorld(itemMouseDown(Fresh(World), 1, index))
        /\ StampArg("itemMouseDown", index)

WValue ==
    \E val \in WidgetValues :
        /\ wd[1].kind = "dropdown"
        /\ SetWorld(value(Fresh(World), 1, val))
        /\ StampArg("value", val)

WSetItems ==
    \E items \in WidgetLists :
        /\ wd[1].kind = "dropdown"
        /\ SetWorld(setItems(Fresh(World), 1, items))
        /\ StampArg("setItems", items)

MValue ==
    \E values \in ValueArrays :
        /\ wd[1].kind = "multiselect"
        /\ SetWorld(multiValue(Fresh(World), 1, values))
        /\ StampArg("value", values)

MSetItems ==
    \E items \in MultiLists :
        /\ wd[1].kind = "multiselect"
        /\ SetWorld(multiSetItems(Fresh(World), 1, items))
        /\ StampArg("setItems", items)

\* a press on a row of the visible list (-1: the select-all row)
MRowMouseDown ==
    \E index \in -1..(MaxLen - 1) :
        /\ wd[1].kind = "multiselect"
        /\ wd[1].display = "block"
        /\ index < Len(wd[1].filteredItems)
        /\ index = -1 => wd[1].showSelectAll
        /\ SetWorld(multiRowMouseDown(Fresh(World), 1, index))
        /\ StampArg("rowMouseDown", index)

\* a press on the remove button of the k-th tag
MTagMouseDown ==
    \E k \in 1..MaxLen :
        /\ wd[1].kind = "multiselect"
        /\ k <= (IF wd[1].tagMode = "single" THEN 1 ELSE Len(wd[1].selectedItems))
        /\ Len(wd[1].selectedItems) > 0
        /\ SetWorld(tagMouseDown(Fresh(World), 1, k))
        /\ StampArg("tagMouseDown", k)

\* a widget built by the BaseComponent constructor from the state its subclass
\* passes (DropdownComponent: closed and enabled; a bare subclass: any), or a
\* MultiselectComponent built with showSelectAll: true (without the select-all
\* row the widget does the same, less the presses on that row)
InitWidget ==
    /\ InitCommon
    /\ notifySame \in BOOLEAN
    /\ input = [kind |-> "static", data |-> 1, ok |-> TRUE]
    /\ cache = Null
    /\ \/ \E opened0 \in BOOLEAN, disabled0 \in BOOLEAN, items \in WidgetLists,
             initialValue \in {NoItem} \cup {<<v>> : v \in WidgetValues} :
             LET w == construct(NoWorld,
                                [DropdownState(items, initialValue)
                                   EXCEPT !.opened = opened0, !.disabled = disabled0])
             IN /\ wd = w.wd
                /\ emitted = w.emitted
       \/ \E items \in MultiLists, values \in ValueArrays \ {<<SELECT_ALL_VALUE>>},
             maxSelectedItems \in Limits, tagMode \in TagModes :
             LET w == newMultiselect(NoWorld, items, values, TRUE,
                                     maxSelectedItems, tagMode)
             IN /\ wd = w.wd
                /\ emitted = w.emitted

NextWidget ==
    \/ WOpen \/ WClose \/ WToggle \/ WDisable \/ WEnable
    \/ WRootFocus \/ WRootMouseDown \/ WArrowClick
    \/ WDocumentMouseDown \/ WRootKeyDown \/ WItemMouseDown \/ WValue \/ WSetItems
    \/ MValue \/ MSetItems \/ MRowMouseDown \/ MTagMouseDown

SpecWidget == InitWidget /\ [][NextWidget]_vars

(* ------------------------ multi-select text field --------------------- *)

\* what the user types into the text field of the multi-select
MultiTexts == {"", "p"}

\* the user edits the text field
MInput ==
    \E newText \in MultiTexts :
        /\ ~wd[1].disabled
        /\ SetWorld(multiInput(Fresh(World), 1, newText))
        /\ StampArg("input", newText)

\* the debounce timer fires
MTimer ==
    /\ wd[1].timer
    /\ SetWorld(multiTimer(Fresh(World), 1))
    /\ Stamp("timer")

\* a MultiselectComponent over three entries, all enabled or one disabled
InitMultiInput ==
    /\ InitCommon
    /\ notifySame \in BOOLEAN
    /\ input = [kind |-> "static", data |-> 1, ok |-> TRUE]
    /\ cache = Null
    /\ \E items \in {ListThree, ListSkip},
          values \in ValueArrays \ {<<SELECT_ALL_VALUE>>}, maxSelectedItems \in Limits :
          LET w == newMultiselect(NoWorld, items, values, TRUE,
                                  maxSelectedItems, "multiple")
          IN /\ wd = w.wd
             /\ emitted = w.emitted

NextMultiInput == MInput \/ MTimer \/ WRootKeyDown \/ MRowMouseDown \/ MValue

SpecMultiInput == InitMultiInput /\ [][NextMultiInput]_vars

(* ---------------------------- combobox driver ------------------------- *)

\* the user edits the input: any text may result (typing, pasting, deleting)
CInput ==
    \E newText \in FilterTexts :
        /\ ~wd[1].disabled
        /\ SetWorld(comboInput(Fresh(World), 1, newText))
        /\ StampArg("input", newText)

CKeyDown ==
    \E key \in ComboKeys :
        /\ SetWorld(rootKeyDown(Fresh(World), 1, key))
        /\ Stamp(IF key = "Escape" THEN "escape" ELSE key)

\* the debounce timer fires
CTimer ==
    /\ wd[1].timer
    /\ SetWorld(comboTimer(Fresh(World), 1))
    /\ Stamp("timer")

CFilter ==
    \E text \in FilterTexts :
        /\ SetWorld(comboFilter(Fresh(World), 1, text))
        /\ StampArg("filter", text)

CValue ==
    \E val \in WidgetValues :
        /\ SetWorld(comboValue(Fresh(World), 1, val))
        /\ StampArg("value", val)

CSetItems ==
    \E items \in ComboLists :
        /\ SetWorld(comboSetItems(Fresh(World), 1, items))
        /\ StampArg("setItems", items)

\* a press on a rendered entry
CItemMouseDown ==
    \E index \in 0..(MaxLen - 1) :
        /\ wd[1].mounted
        /\ index < Len(wd[1].filteredItems)
        /\ SetWorld(comboItemMouseDown(Fresh(World), 1, index))
        /\ StampArg("itemMouseDown", index)

\* a ComboboxComponent built from items, a value, a strategy and a minimum
\* filter length
InitCombobox ==
    /\ InitCommon
    /\ notifySame \in BOOLEAN
    /\ input = [kind |-> "static", data |-> 1, ok |-> TRUE]
    /\ cache = Null
    /\ \E items \in ComboLists, initialValue \in {NoItem, <<"a">>},
          config \in FilterConfigs :
          LET w == newCombobox(NoWorld, items, initialValue, config[1], config[2])
          IN /\ wd = w.wd
             /\ emitted = w.emitted

NextCombobox ==
    \/ CKeyDown \/ CInput \/ CTimer \/ CFilter \/ CValue \/ CSetItems \/ CItemMouseDown

SpecCombobox == InitCombobox /\ [][NextCombobox]_vars

(* ---------------------------- teardown driver ------------------------- *)

\* several widgets on one DataSource, subscribers of its events that are not
\* widgets, and destroy()

TeardownKeys == {"Escape", "ArrowDown", "Enter"}

\* a static array, and a factory (whose promises settle either way)
TeardownInputs ==
    {[kind |-> "static", data |-> 1, ok |-> TRUE],
     [kind |-> "factory", data |-> Null, ok |-> TRUE]}

\* the handler arrays before a destroy() are kept with it
TeardownStamp(name, i) ==
    /\ lastOp' = [NoOp EXCEPT !.op = name, !.id = i, !.wdBefore = wd,
                              !.arg = IF name = "destroy" THEN <<subs>> ELSE <<>>]
    /\ UNCHANGED <<emits, unsubCalls, notifySame>>

\* code that is not a widget subscribes to the three events of the DataSource
TSubscribe ==
    /\ \A r \in 1..Len(regs) : regs[r].fn # PlainCb(1)
    /\ SetWorld(on(on(on(Fresh(World), "loading", PlainCb(1)), "load", PlainCb(1)),
                   "error", PlainCb(1)))
    /\ TeardownStamp("on", 0)
    /\ UNCHANGED sinceInvalidate

TAttach ==
    /\ Len(wd) < MaxAttached
    /\ cache = Null => hist.nFetch < MaxFetches
    /\ SetWorld(newDropdownWithDataSource(Fresh(World), FALSE, sinceInvalidate))
    /\ TeardownStamp("attach", Len(wd) + 1)
    /\ sinceInvalidate' = (sinceInvalidate /\ cache # Null)

TDestroy ==
    \E i \in 1..Len(wd) :
        /\ SetWorld(destroy(Fresh(World), i))
        /\ TeardownStamp("destroy", i)
        /\ UNCHANGED sinceInvalidate

TFetch ==
    \E force \in BOOLEAN :
        /\ hist.nFetch < MaxFetches
        /\ SetWorld(fetch(Fresh(World), force, FALSE, sinceInvalidate))
        /\ TeardownStamp("fetch", hist.nFetch + 1)
        /\ sinceInvalidate' = FALSE

TSettle ==
    \E k \in 1..Len(fetches) :
        \E o \in Outcomes(k) :
            /\ SetWorld(resume(Fresh(World), k, o.ok, o.data))
            /\ TeardownStamp("settle", fetches[k].id)
            /\ UNCHANGED sinceInvalidate

\* a key press on the root input of widget i, or on the input that was one
TKeyDown ==
    \E i \in 1..Len(wd), key \in TeardownKeys :
        /\ SetWorld(rootKeyDown(Fresh(World), i, key))
        /\ TeardownStamp(key, i)
        /\ UNCHANGED sinceInvalidate

\* a pointer press on that input
TRootMouseDown ==
    \E i \in 1..Len(wd) :
        /\ SetWorld(removable(Fresh(World), i, onRootMouseDown(Fresh(World), i)))
        /\ TeardownStamp("rootMouseDown", i)
        /\ UNCHANGED sinceInvalidate

\* a pointer press elsewhere in the document, for the document listener of
\* widget i
TDocumentMouseDown ==
    \E i \in 1..Len(wd) :
        /\ SetWorld(removable(Fresh(World), i,
                              onDocumentMouseDown(Fresh(World), i, FALSE, FALSE)))
        /\ TeardownStamp("pressOutside", i)
        /\ UNCHANGED sinceInvalidate

InitTeardown ==
    /\ InitCommon
    /\ emitted = <<>>
    /\ notifySame \in BOOLEAN
    /\ input \in TeardownInputs
    /\ cache = (IF IsStatic(input) THEN input.data ELSE Null)
    /\ wd = <<>>

NextTeardown == TSubscribe \/ TAttach \/ TDestroy \/ TFetch \/ TSettle

SpecTeardown == InitTeardown /\ [][NextTeardown]_vars

\* the variables hold the world w
IsWorld(w) ==
    /\ eventHandlers = w.eventHandlers
    /\ subs = w.subs
    /\ regs = w.regs
    /\ calls = w.calls
    /\ input = w.input
    /\ cache = w.cache
    /\ loading = w.loading
    /\ factoryCalls = w.factoryCalls
    /\ fetches = w.fetches
    /\ last = w.last
    /\ hist = w.hist
    /\ wd = w.wd
    /\ emitted = w.emitted

\* one widget built on a new DataSource, the keyboard and the pointer
InitDestroyed ==
    /\ lastOp = NoOp
    /\ emits = 0
    /\ unsubCalls = 0
    /\ sinceInvalidate = FALSE
    /\ notifySame \in BOOLEAN
    /\ \E inp \in TeardownInputs :
          LET w0 == [NoWorld EXCEPT !.input = inp,
                                    !.cache = IF IsStatic(inp) THEN inp.data ELSE Null]
          IN IsWorld(newDropdownWithDataSource(w0, FALSE, FALSE))

NextDestroyed ==
    TDestroy \/ TFetch \/ TSettle \/ TKeyDown \/ TRootMouseDown \/ TDocumentMouseDown

SpecDestroyed == InitDestroyed /\ [][NextDestroyed]_vars

(* ======================= DataSource: C1 .. C6 ========================= *)

EventNames(rec) == [k \in 1..Len(rec.events) |-> rec.events[k].ev]

\* the last operation called fetch() (directly, or from _initDataSource)
FetchCalled == lastOp.op \in {"fetch", "attach"} /\ last.id # 0

\* C1: on a factory-backed source whose fetch() calls so far were made one
\* after the other (none while another was suspended), with the first one
\* successful and no invalidate(), the factory has been invoked once for the
\* first call plus once per fetch(true); a later fetch() without force
\* returns the cached collection, emits nothing and invokes nothing; every
\* fetch(true) invokes the factory.
C1_CacheIdempotence ==
    input.kind = "factory" =>
        /\ (hist.clean /\ hist.nFetch >= 1) =>
              factoryCalls = hist.nForce + (IF hist.firstForced THEN 0 ELSE 1)
        /\ (FetchCalled /\ hist.clean /\ ~last.force /\ last.id >= 2) =>
              /\ last.path = "cache"
              /\ last.events = <<>>
              /\ calls = <<>>
              /\ ~last.called
              /\ last.status = "ok"
              /\ last.ret # Null
              /\ last.ret = cache
        /\ (FetchCalled /\ last.force) => (last.called /\ last.path = "async")

C1_Witness ==
    /\ input.kind = "factory"
    /\ lastOp.op = "fetch"
    /\ hist.clean
    /\ ~last.force
    /\ last.id >= 2
    /\ last.path = "cache"
    /\ factoryCalls = 1

\* C2: an invocation that does not return the cache on a future- or
\* factory-backed source has emitted exactly <<loading>> while it is
\* suspended, exactly <<loading, load>> once its future succeeded and exactly
\* <<loading, error>> once it failed.
AsyncEvents(rec) ==
    CASE rec.status = "pending" -> EventNames(rec) = <<"loading">>
      [] rec.status = "ok" -> /\ EventNames(rec) = <<"loading", "load">>
                              /\ rec.events[2].payload = rec.ret
      [] rec.status = "fail" -> EventNames(rec) = <<"loading", "error">>
      [] OTHER -> FALSE

C2_EventOrder ==
    input.kind # "static" =>
        /\ \A k \in 1..Len(fetches) :
              fetches[k].status = "pending" /\ AsyncEvents(fetches[k])
        /\ last.path = "async" => AsyncEvents(last)
        /\ (last.id # 0 /\ last.path # "async") =>
              (last.path = "cache" /\ last.events = <<>>)
        /\ lastOp.op = "settle" =>
              /\ last.id = lastOp.id
              /\ last.status = (IF lastOp.ok THEN "ok" ELSE "fail")

C2_Witness ==
    /\ lastOp.op = "settle"
    /\ lastOp.ok
    /\ last.overlap = FALSE
    /\ EventNames(last) = <<"loading", "load">>
    /\ fetches # <<>>

\* C3: when the future awaited by an invocation rejects, the cache is what it
\* was, the loading flag is cleared, the invocation emitted error(err) exactly
\* once and rejects with err, and every attached widget keeps its dataItems
\* and its selection.
ErrorCount(rec) == Cardinality({k \in 1..Len(rec.events) : rec.events[k].ev = "error"})

C3_FailureLeavesState ==
    (lastOp.op = "settle" /\ ~lastOp.ok) =>
        /\ cache = lastOp.cacheBefore
        /\ loading = FALSE
        /\ ErrorCount(last) = 1
        /\ last.events[Len(last.events)].payload = Err
        /\ last.status = "fail"
        /\ last.ret = Err
        /\ Len(wd) = Len(lastOp.wdBefore)
        /\ \A i \in 1..Len(wd) :
              /\ wd[i].dataItems = lastOp.wdBefore[i].dataItems
              /\ wd[i].selectedItem = lastOp.wdBefore[i].selectedItem

C3_Witness ==
    /\ lastOp.op = "settle"
    /\ ~lastOp.ok
    /\ cache # Null
    /\ Len(wd) >= 1
    /\ wd[1].selectedItem # NoItem
    /\ \E r \in 1..Len(regs) : regs[r].fn.kind = "wError" /\ regs[r].n >= 1

\* C4: a source constructed from a static collection has that collection
\* cached right after construction, is never loading, never emits loading,
\* and fetch(true) emits load with that collection inside the call and
\* returns it.
C4_StaticSource ==
    input.kind = "static" =>
        /\ hist.nFetch = 0 /\ lastOp.op # "invalidate" /\ ~sinceInvalidate => cache = input.data
        /\ loading = FALSE
        /\ fetches = <<>>
        /\ \A k \in 1..Len(last.events) : last.events[k].ev # "loading"
        /\ (FetchCalled /\ last.force) =>
              /\ last.events = <<[ev |-> "load", payload |-> input.data, sync |-> TRUE]>>
              /\ last.status = "ok"
              /\ last.ret = input.data
              /\ cache = input.data

C4_Witness ==
    /\ input.kind = "static"
    /\ lastOp.op = "fetch"
    /\ last.force
    /\ last.hit # Null
    /\ last.events # <<>>

\* what a full reload is for the invocation that was just called or completed
FullReload(rec) ==
    /\ rec.path # "cache"
    /\ input.kind = "static" =>
          /\ rec.events = <<[ev |-> "load", payload |-> input.data, sync |-> TRUE]>>
          /\ rec.ret = input.data
    /\ input.kind = "factory" => rec.called
    /\ input.kind # "static" =>
          /\ rec.events[1].ev = "loading"
          /\ rec.status = "ok" => EventNames(rec) = <<"loading", "load">>

C6_AsStated ==
    /\ input.kind = "factory" => (loading <=> fetches # <<>>)
    /\ input.kind = "static" => ~loading

(* ===================== BaseEventEmitter: C7 .. C9 ===================== *)

\* the last operation ran no emit inside a handler
NoNestedEmit == \A k \in 1..Len(calls) : calls[k].depth = 0

\* C7 as stated (for an emit whose handlers emit nothing themselves): the
\* emit invokes every handler subscribed to the event when it starts exactly
\* once, in subscription order, with the payload emitted, and no handler of
\* another event.
C7_AsStated ==
    (lastOp.op = "emit" /\ NoNestedEmit) =>
        /\ [k \in 1..Len(calls) |-> calls[k].reg] = lastOp.live
        /\ \A k \in 1..Len(calls) :
              /\ calls[k].payload = lastOp.payload
              /\ calls[k].ev = lastOp.ev
              /\ regs[calls[k].reg].ev = lastOp.ev

\* the functions an array of registrations holds, in order
FnSeq(seq) == [k \in 1..Len(seq) |-> regs[seq[k]].fn]

\* a sequence without its element x (registrations are unique in an array)
Without(seq, x) == SelectSeq(seq, LAMBDA y : y # x)

\* C8 as stated: the first call of an unsubscribe function leaves the
\* handlers of its event as they were minus the registration it was created
\* for (nothing changes if that one is gone already), and every later call
\* changes nothing; what is compared is the sequence of functions an emit
\* would invoke.
C8_AsStated ==
    lastOp.op = "unsubscribe" =>
        FnSeq(subs[regs[lastOp.reg].arr]) =
            FnSeq(IF lastOp.nth = 1 THEN Without(lastOp.live, lastOp.reg) ELSE lastOp.live)

\* C9 as stated: the callback given to once() is invoked at most once, and
\* never if its unsubscribe function was called before it was first invoked.
C9_AsStated ==
    \A r \in 1..Len(regs) :
        regs[r].fn.kind = "wrapped" =>
            /\ regs[r].n <= 1
            /\ regs[r].early => regs[r].n = 0

(* ========================= BaseComponent: C10 ========================= *)

OpenOps == {"open", "toggle", "rootFocus", "rootMouseDown", "arrowClick"}

HasEmitted(i, event) == \E k \in 1..Len(emitted) : emitted[k].widget = i /\ emitted[k].ev = event

\* C10: a disabled widget is closed in every reachable state; open() by any
\* path on a disabled widget leaves it closed and emits no open; disable()
\* on an opened widget closes it and marks it disabled.
C10_DisabledIsClosed ==
    \A i \in 1..Len(wd) :
        /\ wd[i].disabled => (~wd[i].opened /\ wd[i].display = "none")
        /\ (lastOp.op \in OpenOps /\ lastOp.wdBefore # <<>> /\ lastOp.wdBefore[i].disabled) =>
              (~wd[i].opened /\ wd[i].display = "none" /\ ~HasEmitted(i, "open"))
        /\ (lastOp.op = "disable" /\ lastOp.wdBefore # <<>>) =>
              (wd[i].disabled /\ ~wd[i].opened /\ wd[i].display = "none")

C10_Witness ==
    /\ lastOp.op = "disable"
    /\ lastOp.wdBefore[1].opened
    /\ wd[1].disabled
    /\ ~wd[1].opened
    /\ HasEmitted(1, "close")

(* ================== lifecycle and selection: C11 .. C15 =============== *)

EnabledAt(items, v) == {p \in 1..Len(items) : items[p].value = v /\ ~items[p].disabled}

ValuesOf(items) == {items[p].value : p \in 1..Len(items)}

\* the selection of widget 1 in the record rec, as a sequence of entries
SelectionOf(rec) == IF rec.kind = "multiselect" THEN rec.selectedItems ELSE rec.selectedItem

\* C13: setItems(newItems) leaves as selection the previous selection
\* restricted to the values present in newItems (single-select: kept or
\* cleared; multi-select: the entries still present, in their previous
\* order); and in every state each selected value is the value of an entry of
\* the current dataItems.
C13_SetItemsRestrictsSelection ==
    /\ lastOp.op = "setItems" =>
          /\ wd[1].dataItems = lastOp.arg[1]
          /\ SelectionOf(wd[1]) =
                SelectSeq(SelectionOf(lastOp.wdBefore[1]),
                          LAMBDA e : e.value \in ValuesOf(lastOp.arg[1]))
    /\ ValuesOf(SelectionOf(wd[1])) \subseteq ValuesOf(wd[1].dataItems)

\* a multi-select keeps two of its three selected entries, in their order
C13_Witness ==
    /\ lastOp.op = "setItems"
    /\ wd[1].kind = "multiselect"
    /\ Len(lastOp.wdBefore[1].selectedItems) = 3
    /\ Len(wd[1].selectedItems) = 2
    /\ wd[1].selectedItems[1].value = "o"

\* a single-select loses its selection
C13_SingleCleared ==
    /\ lastOp.op = "setItems"
    /\ wd[1].kind = "dropdown"
    /\ lastOp.wdBefore[1].selectedItem # NoItem
    /\ wd[1].selectedItem = NoItem

\* an entry of items with value v is disabled
DisabledIn(items, v) == \E p \in 1..Len(items) : items[p].value = v /\ items[p].disabled

\* C14 (as stated): in every state no selected entry (selectedItem of a
\* single-select, each member of selectedItems of a multi-select) is disabled
\* in the current dataItems.
C14_AsStated ==
    \A k \in 1..Len(SelectionOf(wd[1])) :
        ~DisabledIn(wd[1].dataItems, SelectionOf(wd[1])[k].value)

\* the collection the keyboard moves the focus in
VisibleItems(rec) == IF rec.kind = "dropdown" THEN rec.dataItems ELSE rec.filteredItems

\* the enabled indices of items (counting from 0) beyond cur in the direction
Ahead(cur, direction, items) ==
    {k \in 0..(Len(items) - 1) :
        /\ ~items[k + 1].disabled
        /\ IF direction = "down" THEN k > cur ELSE k < cur}

\* the member of the non-empty set S nearest to cur
Nearest(S, cur) == CHOOSE k \in S : \A j \in S : (k >= cur /\ k <= j) \/ (k <= cur /\ k >= j)

\* an arrow key was pressed on an opened widget that has entries to move in
\* (single-select: an enabled entry; multi-select: a visible entry): the
\* handler set focusedIndex to the result of findNextEnabledIndex
ArrowMoved ==
    /\ lastOp.op \in {"ArrowDown", "ArrowUp"}
    /\ lastOp.wdBefore[1].opened
    /\ IF wd[1].kind = "multiselect"
       THEN Len(lastOp.wdBefore[1].filteredItems) > 0
       ELSE Len(EnabledItems(lastOp.wdBefore[1].dataItems)) > 0

\* C15 (as stated): the index findNextEnabledIndex gives the arrow keys is
\* the nearest enabled index in the direction when there is one, and the
\* current index otherwise; it is never outside the collection (-1, no
\* focus, apart).
C15_AsStated ==
    ArrowMoved =>
        LET cur == lastOp.wdBefore[1].focusedIndex
            items == VisibleItems(lastOp.wdBefore[1])
            ahead == Ahead(cur, IF lastOp.op = "ArrowDown" THEN "down" ELSE "up", items)
            result == wd[1].focusedIndex
        IN /\ result = IF ahead # {} THEN Nearest(ahead, cur) ELSE cur
           /\ result = -1 \/ (result >= 0 /\ result < Len(items))

(* ===================== multi-select: C16 .. C20 ======================= *)

\* the only event of the last operation is change(selection)
OneChange(selection) == emitted = <<[widget |-> 1, ev |-> "change", payload |-> selection]>>

\* the last operation was value(values) on a multi-select
MultiValueCalled == wd[1].kind = "multiselect" /\ lastOp.op = "value"

\* the widget as it was before the last operation, its selection emptied
EmptiedBefore == setSelectedItems([Fresh(World) EXCEPT !.wd = lastOp.wdBefore], 1, <<>>)

\* C16: value([-1]) on a multi-select leaves as selection exactly the enabled
\* entries of dataItems, allSelected true, and emits one change with that
\* selection and nothing else; the selection is the one toggleSelectAll()
\* produces from an empty selection.
C16_ValueSelectAll ==
    (MultiValueCalled /\ lastOp.arg[1] = <<SELECT_ALL_VALUE>>) =>
        LET items == lastOp.wdBefore[1].dataItems
        IN /\ wd[1].dataItems = items
           /\ wd[1].selectedItems = SelectSeq(items, LAMBDA e : ~e.disabled)
           /\ wd[1].allSelected
           /\ OneChange(wd[1].selectedItems)
           /\ wd[1].selectedItems = toggleSelectAll(EmptiedBefore, 1).wd[1].selectedItems

\* value([-1]) replaces a selection that held a disabled entry
C16_Witness ==
    /\ MultiValueCalled
    /\ lastOp.arg[1] = <<SELECT_ALL_VALUE>>
    /\ wd[1].dataItems = ListSkip
    /\ Len(lastOp.wdBefore[1].selectedItems) = 1
    /\ lastOp.wdBefore[1].selectedItems[1].disabled
    /\ Len(wd[1].selectedItems) = 2

\* C17: value(rawValues) with rawValues other than [-1] leaves as selection
\* exactly the enabled entries of dataItems whose value is in rawValues
\* (whatever maxSelectedItems is), leaves allSelected telling whether there
\* are enabled entries and all of them are selected, and emits one change
\* with the selection and nothing else.
C17_ValueSelectsEnabledMatches ==
    (MultiValueCalled /\ lastOp.arg[1] # <<SELECT_ALL_VALUE>>) =>
        LET items == lastOp.wdBefore[1].dataItems
            rawValues == lastOp.arg[1]
            matches == SelectSeq(items, LAMBDA e :
                          ~e.disabled /\ \E k \in 1..Len(rawValues) : rawValues[k] = e.value)
            enabled == SelectSeq(items, LAMBDA e : ~e.disabled)
        IN /\ wd[1].dataItems = items
           /\ wd[1].selectedItems = matches
           /\ wd[1].allSelected = (Len(enabled) > 0 /\ matches = enabled)
           /\ OneChange(matches)

\* three entries are selected by value() on a widget limited to two
C17_Witness ==
    /\ MultiValueCalled
    /\ lastOp.arg[1] = <<"a", "b", "o">>
    /\ wd[1].maxSelectedItems = 2
    /\ Len(wd[1].selectedItems) = 3
    /\ wd[1].allSelected

\* disabled matches are dropped and [] clears
C17_DroppedAndCleared ==
    /\ MultiValueCalled
    /\ \/ /\ lastOp.arg[1] = <<"a", "b", "o">>
          /\ wd[1].dataItems = ListSkip
          /\ Len(wd[1].selectedItems) = 2
       \/ /\ lastOp.arg[1] = <<>>
          /\ Len(lastOp.wdBefore[1].selectedItems) > 0
          /\ wd[1].selectedItems = <<>>
          /\ ~wd[1].allSelected

\* the entry the last operation was an interactive toggle of, as <<e>> (<<>>
\* when it was none): Enter or Space with the focus on an enabled visible
\* entry, or a pointer press on the row of an enabled visible entry
KeyToggled ==
    LET b == lastOp.wdBefore[1]
    IN IF /\ lastOp.op \in {"Enter", " "}
          /\ b.focusedIndex >= 0
          /\ b.focusedIndex < Len(b.filteredItems)
          /\ ~b.filteredItems[b.focusedIndex + 1].disabled
       THEN <<b.filteredItems[b.focusedIndex + 1]>> ELSE <<>>
PressToggled ==
    LET b == lastOp.wdBefore[1]
    IN IF /\ lastOp.op = "rowMouseDown"
          /\ lastOp.arg[1] >= 0
          /\ ~b.filteredItems[lastOp.arg[1] + 1].disabled
       THEN <<b.filteredItems[lastOp.arg[1] + 1]>> ELSE <<>>

\* what a toggle of entry e has to leave, given the widget b before it
ToggleDone(b, e) ==
    LET sel == b.selectedItems
    IN IF \E k \in 1..Len(sel) : sel[k].value = e.value
       THEN LET rest == SelectSeq(sel, LAMBDA x : x.value # e.value)
            IN wd[1].selectedItems = rest /\ OneChange(rest)
       ELSE IF Len(sel) < b.maxSelectedItems
       THEN wd[1].selectedItems = Append(sel, e) /\ OneChange(Append(sel, e))
       ELSE wd[1].selectedItems = sel /\ emitted = <<>>

\* C18 (as stated): an interactive toggle of an entry, by keyboard or by
\* pointer, removes the entry when it is selected, appends it when it is not
\* and fewer than maxSelectedItems entries are selected, and otherwise
\* changes nothing and emits nothing; a toggle that changes the selection
\* emits one change with the new selection.
C18_AsStated ==
    wd[1].kind = "multiselect" =>
        /\ KeyToggled # <<>> => ToggleDone(lastOp.wdBefore[1], KeyToggled[1])
        /\ PressToggled # <<>> => ToggleDone(lastOp.wdBefore[1], PressToggled[1])

\* every enabled entry of the widget's dataItems has its value among the
\* selected values, and as many entries are selected as are enabled
AllEnabledSelected(rec) ==
    LET enabled == SelectSeq(rec.dataItems, LAMBDA e : ~e.disabled)
    IN /\ \A k \in 1..Len(enabled) : enabled[k].value \in ValuesOf(rec.selectedItems)
       /\ Len(rec.selectedItems) = Len(enabled)

\* C19 (as stated): from any state of a multi-select, toggleSelectAll() leaves
\* the selection empty when allSelected was true and equal to the enabled
\* entries of dataItems otherwise, emits one change with the new selection
\* and nothing else, and leaves allSelected telling whether all enabled
\* entries are selected.
C19_AsStated ==
    wd[1].kind = "multiselect" =>
        LET after == toggleSelectAll(Fresh(World), 1)
            rec == after.wd[1]
        IN /\ rec.selectedItems =
                 IF wd[1].allSelected THEN <<>>
                 ELSE SelectSeq(wd[1].dataItems, LAMBDA e : ~e.disabled)
           /\ after.emitted = <<[widget |-> 1, ev |-> "change", payload |-> rec.selectedItems]>>
           /\ rec.allSelected = AllEnabledSelected(rec)

\* C20 (as stated): in every state of a multi-select, allSelected is true
\* iff every enabled entry of dataItems has its value among the selected
\* values and the number of selected entries equals the number of enabled
\* entries.
C20_AsStated ==
    wd[1].kind = "multiselect" => (wd[1].allSelected = AllEnabledSelected(wd[1]))

(* ============== overlap, detachment and order: C26 .. C30 ============= *)

\* the registrations of once-handlers that the last emit invoked
OnceInvoked ==
    {calls[k].reg : k \in {j \in 1..Len(calls) : regs[calls[j].reg].fn.kind = "wrapped"}}

\* how many times the last operation invoked registration r
TimesCalled(r) == Cardinality({k \in 1..Len(calls) : calls[k].reg = r})

\* C29 (as stated): when an emit (whose handlers emit nothing themselves)
\* invokes a once-handler, which detaches itself, every other handler that
\* was registered for the event when the emit started is invoked exactly
\* once by that emit, wherever it stands relative to the once-handler.
C29_AsStated ==
    (lastOp.op = "emit" /\ NoNestedEmit /\ OnceInvoked # {}) =>
        \A k \in 1..Len(lastOp.live) :
            lastOp.live[k] \notin OnceInvoked => TimesCalled(lastOp.live[k]) = 1

\* C27: on a factory-backed source every fetch(true) invokes the factory and
\* emits its own loading, also while other fetches are in flight; each one
\* that succeeds emits its own load with its data and stores that data, so
\* the cache holds the data of the fetch that settled last, whatever the
\* order of the calls.
C27_LastSettledWins ==
    input.kind = "factory" =>
        /\ (lastOp.op = "fetch" /\ last.force /\ last.status = "pending") =>
              /\ last.called
              /\ EventNames(last) = <<"loading">>
              /\ fetches[Len(fetches)].id = last.id
        /\ (lastOp.op = "settle" /\ lastOp.ok /\ last.force) =>
              /\ EventNames(last) = <<"loading", "load">>
              /\ last.events[2].payload = last.ret
              /\ cache = last.ret

\* of two overlapping fetch(true) calls the first one settles last, with
\* other data than the second: its data replaces the cached one
C27_Witness ==
    /\ input.kind = "factory"
    /\ lastOp.op = "settle"
    /\ lastOp.ok
    /\ last.force
    /\ last.id = 1
    /\ hist.nForce = 2
    /\ fetches = <<>>
    /\ lastOp.cacheBefore # Null
    /\ lastOp.cacheBefore # cache

\* C28: a fetch that is in flight when invalidate() is called is not
\* cancelled: when its future succeeds with no fetch issued since the
\* invalidate, it stores its data and emits load, so getData() is non-null
\* again.
C28_InvalidateDoesNotCancel ==
    (lastOp.op = "settle" /\ lastOp.ok /\ sinceInvalidate) =>
        /\ cache # Null
        /\ cache = last.ret
        /\ last.events[Len(last.events)] = [ev |-> "load", payload |-> cache, sync |-> FALSE]

C28_Witness ==
    /\ lastOp.op = "settle"
    /\ lastOp.ok
    /\ sinceInvalidate
    /\ lastOp.cacheBefore = Null
    /\ cache # Null

\* the last operation took widget 1 from closed to opened / opened to closed
Opening == lastOp.wdBefore # <<>> /\ ~lastOp.wdBefore[1].opened /\ wd[1].opened
Closing == lastOp.wdBefore # <<>> /\ lastOp.wdBefore[1].opened /\ ~wd[1].opened

\* C30: on a transition from closed to opened the mount hook runs, then the
\* popover is revealed, then open is emitted; on a transition from opened to
\* closed the unmount hook runs, then the popover is hidden, then close is
\* emitted.
C30_HookThenSurfaceThenEvent ==
    /\ Opening =>
          /\ wd[1].steps = <<"hook", "display", "emit">>
          /\ wd[1].display = "block"
          /\ emitted[Len(emitted)].ev = "open"
    /\ Closing =>
          /\ wd[1].steps = <<"hook", "display", "emit">>
          /\ wd[1].display = "none"
          /\ emitted[Len(emitted)].ev = "close"

\* a single-select that selected an entry and closed: the list is unmounted,
\* the popover hidden, change and then close emitted
C30_Witness ==
    /\ Closing
    /\ wd[1].kind = "dropdown"
    /\ lastOp.wdBefore[1].mounted
    /\ ~wd[1].mounted
    /\ Len(emitted) = 2
    /\ emitted[1].ev = "change"

\* the last operation was new DropdownComponent(props) with both items and
\* dataSource, or with a selector that resolves to no element
FaultyNew ==
    /\ lastOp.op = "new"
    /\ \/ lastOp.arg[1].items # <<>> /\ lastOp.arg[1].dataSource # <<>>
       \/ ~lastOp.arg[1].found

C26_NoElement ==
    /\ FaultyNew
    /\ ~lastOp.arg[1].found
    /\ lastOp.arg[1].dataSource # <<>>
    /\ lastOp.arg[1].items = <<>>
    /\ wd = <<>>


(* ================== filtering and typing: C21 .. C25 ================== *)

\* the entries of items, in their order, that the filter text selects under
\* the strategy, letter case ignored
Selected(items, text, strategy) ==
    LET Hit(item) ==
            LET t == ToLowerCase(CharsOf[item.text])
                f == ToLowerCase(text)
            IN IF strategy = "startsWith" THEN StartsWith(t, f) ELSE StringIncludes(t, f)
        keep == {k \in 1..Len(items) : Hit(items[k])}
        RECURSIVE Pick(_)
        Pick(k) == IF k > Len(items) THEN <<>>
                   ELSE (IF k \in keep THEN <<items[k]>> ELSE <<>>) \o Pick(k + 1)
    IN Pick(1)

FilterReference(rec) ==
    IF rec.filterStrategy = "none" \/ Len(rec.filterText) < rec.minFilterLength
    THEN rec.dataItems
    ELSE Selected(rec.dataItems, rec.filterText, rec.filterStrategy)

\* C21: the filtered collection of the combobox is the full collection when
\* the strategy is none or the filter text is shorter than the threshold, and
\* otherwise the entries, in source order, whose text contains (or starts
\* with) the filter text, letter case ignored
C21_FilteredIsReference == wd[1].filteredItems = FilterReference(wd[1])

\* a filter written in capitals has kept some entries and dropped others
C21_Witness ==
    /\ wd[1].filterText = <<"A", "N">>
    /\ wd[1].filterStrategy = "contains"
    /\ wd[1].filteredItems # <<>>
    /\ wd[1].filteredItems # wd[1].dataItems

\* the threshold has kept the whole collection for a text that would drop
\* entries
C21_BelowThreshold ==
    /\ wd[1].filterText = <<"a">>
    /\ wd[1].minFilterLength = 2
    /\ Selected(wd[1].dataItems, <<"a">>, wd[1].filterStrategy) # wd[1].dataItems
    /\ wd[1].filteredItems = wd[1].dataItems

\* the filtering events of the last operation
Filterings == SelectSeq(emitted, LAMBDA e : e.ev = "filtering")

\* the last operation recalculated the filter, once, with this text
RecalculatedWith(text) ==
    /\ wd[1].filterText = text
    /\ wd[1].filteredItems = FilterReference([wd[1] EXCEPT !.filterText = text])
    /\ Len(Filterings) <= 1
    /\ \A k \in 1..Len(Filterings) : Filterings[k].payload = text

\* the last operation left the filter as it was
NotRecalculated ==
    /\ wd[1].filterText = lastOp.wdBefore[1].filterText
    /\ wd[1].filteredItems = lastOp.wdBefore[1].filteredItems
    /\ Filterings = <<>>

\* C22 (as stated): an input does not recalculate the filter but leaves one
\* debounce callback pending, whatever was pending before; when the callback
\* runs it recalculates once, with the text the user typed last, from any
\* prior state of the widget (one with a selected entry included); filter(text)
\* recalculates at once
C22_AsStated ==
    /\ lastOp.op = "input" => NotRecalculated /\ wd[1].timer
    /\ lastOp.op = "timer" => RecalculatedWith(wd[1].typed) /\ ~wd[1].timer
    /\ lastOp.op = "filter" => RecalculatedWith(lastOp.arg[1])

\* what the code does: the callback applies the value the input has when it
\* runs, and an input that finds an entry selected has emptied that value
C22_CallbackAppliesInputValue ==
    /\ lastOp.op = "input" =>
           /\ NotRecalculated /\ wd[1].timer
           /\ wd[1].text = IF lastOp.wdBefore[1].selectedItem # NoItem
                            THEN <<>> ELSE lastOp.arg[1]
    /\ lastOp.op = "timer" => RecalculatedWith(lastOp.wdBefore[1].text) /\ ~wd[1].timer
    /\ lastOp.op = "filter" => RecalculatedWith(lastOp.arg[1])

\* the callback ran after the user typed over a selected entry, and applied
\* the empty text
C22_TypedTextLost ==
    /\ lastOp.op = "timer"
    /\ wd[1].typed # <<>>
    /\ wd[1].filterText = <<>>
    /\ wd[1].selectedItem = NoItem

\* the filter of the combobox is clear
FilterClear(rec) == rec.filterText = <<>> /\ rec.filteredItems = rec.dataItems

\* the last operation selected an entry
Selecting == \E k \in 1..Len(emitted) : emitted[k].ev = "change"

\* C23 (as stated): once an entry of the combobox has been selected (by
\* value(), by Enter or by a press) the filter text is empty and the filtered
\* collection is the whole collection, until the user types or filter() is
\* called - also when a debounce callback was pending at the selection
C23_AsStated == wd[1].settled => FilterClear(wd[1])

\* what the code does: the selection clears the filter, and only the pending
\* callback, when it runs, filters again
C23_ClearedUntilCallback ==
    /\ Selecting => FilterClear(wd[1])
    /\ (/\ wd[1].settled /\ lastOp.op # "timer"
        /\ FilterClear(lastOp.wdBefore[1])) => FilterClear(wd[1])

\* an entry was selected while a callback was pending, and the callback has
\* filtered the list by the text of that entry
C23_FilteredBySelectedText ==
    /\ lastOp.op = "timer"
    /\ wd[1].settled
    /\ wd[1].selectedItem # NoItem
    /\ wd[1].filterText = TextOf(wd[1].selectedItem)
    /\ wd[1].filteredItems # wd[1].dataItems

\* the filter text the last operation applied, if it applied one: filter(text)
\* its argument, the debounce callback the value of the input, a selection
\* the empty text
Applied ==
    IF lastOp.op = "filter" THEN <<lastOp.arg[1]>>
    ELSE IF lastOp.op = "timer" THEN <<lastOp.wdBefore[1].text>>
    ELSE IF Selecting THEN << <<>> >>
    ELSE <<>>

\* ... and the store notified the filterText subscriber of it
Recalculating ==
    /\ Applied # <<>>
    /\ notifySame \/ Applied[1] # lastOp.wdBefore[1].filterText

C24_ClearedBySelection ==
    /\ Selecting
    /\ lastOp.wdBefore[1].filterText # <<>>
    /\ Len(Filterings) = 1

\* the last operation was a Backspace key press on a multi-select
BackspacePressed == wd[1].kind = "multiselect" /\ lastOp.op = "Backspace"

\* a sequence without its last element
AllButLast(seq) == SubSeq(seq, 1, Len(seq) - 1)

\* C25: a Backspace key press on a multi-select whose text field is empty
\* removes the last element of selectedItems, keeps the others in order and
\* emits one change; with a text in the field, or with nothing selected, it
\* changes nothing and emits nothing
C25_BackspaceRemovesLast ==
    BackspacePressed =>
        LET before == lastOp.wdBefore[1]
        IN IF before.text = "" /\ Len(before.selectedItems) > 0
           THEN /\ wd[1].selectedItems = AllButLast(before.selectedItems)
                /\ OneChange(wd[1].selectedItems)
           ELSE /\ wd = lastOp.wdBefore
                /\ emitted = <<>>

\* Backspace has removed the last of several selected entries
C25_Witness ==
    /\ BackspacePressed
    /\ lastOp.wdBefore[1].text = ""
    /\ Len(lastOp.wdBefore[1].selectedItems) >= 2
    /\ Len(wd[1].selectedItems) = Len(lastOp.wdBefore[1].selectedItems) - 1

\* Backspace was pressed with a text in the field and entries selected
C25_TextInField ==
    /\ BackspacePressed
    /\ lastOp.wdBefore[1].text # ""
    /\ Len(wd[1].selectedItems) > 0

(* ============ rendering, focus, keys and teardown: C31 .. C40 ========== *)

\* the last operation was a pointer press on a row of an opened multi-select
RowPressed ==
    /\ wd[1].kind = "multiselect"
    /\ lastOp.op = "rowMouseDown"
    /\ lastOp.wdBefore[1].opened

\* C40 (as stated): in an opened multi-select a pointer press on an enabled
\* entry toggles it (the limit permitting) and emits change, a press on the
\* select-all row does the select-all toggle, a press on a disabled entry
\* changes nothing and emits nothing; the popover stays opened in all three
C40_AsStated ==
    RowPressed =>
        LET b == lastOp.wdBefore[1]
            index == lastOp.arg[1]
        IN /\ wd[1].opened
           /\ IF index = -1
              THEN LET all == toggleSelectAll([Fresh(World) EXCEPT !.wd = lastOp.wdBefore], 1)
                   IN /\ wd[1].selectedItems = all.wd[1].selectedItems
                      /\ emitted = all.emitted
              ELSE IF b.filteredItems[index + 1].disabled
              THEN wd[1].selectedItems = b.selectedItems /\ emitted = <<>>
              ELSE ToggleDone(b, b.filteredItems[index + 1])

\* what the code does: only a press on a disabled entry toggles, and the
\* document listener then closes the popover; every other press does nothing
C40_OnlyDisabledRowsToggle ==
    RowPressed =>
        LET b == lastOp.wdBefore[1]
            index == lastOp.arg[1]
        IN IF index >= 0 /\ b.filteredItems[index + 1].disabled
           THEN LET t == toggleItem([Fresh(World) EXCEPT !.wd = lastOp.wdBefore], 1,
                                    b.filteredItems[index + 1])
                IN /\ wd[1].selectedItems = t.wd[1].selectedItems
                   /\ wd[1].opened = (t.emitted = <<>>)
           ELSE wd = lastOp.wdBefore /\ emitted = <<>>

\* a press on an enabled, unselected entry below the limit has changed nothing
C40_EnabledPressIgnored ==
    /\ RowPressed
    /\ lastOp.arg[1] >= 0
    /\ ~lastOp.wdBefore[1].filteredItems[lastOp.arg[1] + 1].disabled
    /\ Len(lastOp.wdBefore[1].selectedItems) < lastOp.wdBefore[1].maxSelectedItems
    /\ wd[1].selectedItems = lastOp.wdBefore[1].selectedItems
    /\ emitted = <<>>

\* the last operation was an interactive action on a multi-select: a key
\* press, a press on a row of the list or on the remove button of a tag
Interactive ==
    /\ wd[1].kind = "multiselect"
    /\ lastOp.op \in {"Enter", " ", "Backspace", "ArrowDown", "ArrowUp",
                       "rowMouseDown", "tagMouseDown"}

WithinLimit(rec) == Len(rec.selectedItems) <= rec.maxSelectedItems

C39_SelectAllBeyondLimit ==
    /\ wd[1].kind = "multiselect"
    /\ WithinLimit(wd[1])
    /\ ~WithinLimit(toggleSelectAll(Fresh(World), 1).wd[1])

\* the last operation was an arrow key press on an enabled widget
ArrowPressed ==
    /\ lastOp.op \in {"ArrowDown", "ArrowUp"}
    /\ ~lastOp.wdBefore[1].disabled

\* C33 (as stated): in any state of an enabled widget an ArrowDown or ArrowUp
\* key press on a closed popover opens it and leaves focusedIndex as it was;
\* only an arrow press on an opened popover moves the focus
C33_AsStated ==
    ArrowPressed =>
        IF ~lastOp.wdBefore[1].opened
        THEN wd[1].opened /\ wd[1].focusedIndex = lastOp.wdBefore[1].focusedIndex
        ELSE wd[1].opened

\* the entries the keydown listener of the widget looks for before anything
\* else: enabled ones (dropdown), visible ones (combobox), none (multi-select)
NothingToNavigate(rec) ==
    CASE rec.kind = "dropdown" -> EnabledItems(rec.dataItems) = <<>>
      [] rec.kind = "combobox" -> rec.filteredItems = <<>>
      [] OTHER -> FALSE

\* what the code does: the press opens the closed popover unless the widget
\* has nothing to navigate, and then it is ignored
C33_OpensUnlessNothingToNavigate ==
    (ArrowPressed /\ ~lastOp.wdBefore[1].opened) =>
        /\ wd[1].opened = ~NothingToNavigate(lastOp.wdBefore[1])
        /\ wd[1].focusedIndex = lastOp.wdBefore[1].focusedIndex

\* an arrow press on a closed, enabled dropdown without entries was ignored
C33_ArrowIgnored ==
    /\ ArrowPressed
    /\ wd[1].kind = "dropdown"
    /\ lastOp.wdBefore[1].dataItems = <<>>
    /\ ~lastOp.wdBefore[1].opened
    /\ ~wd[1].opened

\* the last operation was an Enter or Space key press
ActivationPressed == lastOp.op \in {"Enter", " "}

\* the focused entry of the widget, if it has one and that one is enabled
FocusedEnabled(rec) ==
    LET items == VisibleItems(rec)
    IN IF /\ rec.focusedIndex >= 0
          /\ rec.focusedIndex < Len(items)
          /\ ~items[rec.focusedIndex + 1].disabled
       THEN <<items[rec.focusedIndex + 1]>> ELSE <<>>

\* the selection of a widget of either kind
Selection(rec) == IF rec.kind = "multiselect" THEN rec.selectedItems ELSE rec.selectedItem

\* the change events of the last operation
Changes == SelectSeq(emitted, LAMBDA e : e.ev = "change")

C34_SpaceIgnored ==
    /\ wd[1].kind = "combobox"
    /\ lastOp.op = " "
    /\ FocusedEnabled(lastOp.wdBefore[1]) # <<>>
    /\ lastOp.wdBefore[1].opened
    /\ wd[1].opened
    /\ wd[1].selectedItem = NoItem

\* the focus of the widget is on no entry or on an enabled entry of its
\* visible collection
FocusValid(rec) ==
    \/ rec.focusedIndex = -1
    \/ /\ rec.focusedIndex >= 0
       /\ rec.focusedIndex < Len(VisibleItems(rec))
       /\ ~VisibleItems(rec)[rec.focusedIndex + 1].disabled

\* the last operation replaced the collection of the widget
Replacing == lastOp.op = "setItems"

\* C32 (as stated): in every reachable state focusedIndex is -1 or the index
\* of an enabled entry of the visible collection; it is -1 after every
\* replacement of that collection (a filter recalculation, setItems, a load)
C32_AsStated ==
    /\ FocusValid(wd[1])
    /\ Replacing => wd[1].focusedIndex = -1

\* what the code does: setItems leaves focusedIndex as it was
C32_SetItemsKeepsFocus ==
    Replacing => wd[1].focusedIndex = lastOp.wdBefore[1].focusedIndex

\* ... and every other operation keeps a valid focus valid
C32_ValidUnlessReplaced ==
    (~Replacing /\ lastOp.op # "none" /\ FocusValid(lastOp.wdBefore[1])) => FocusValid(wd[1])

\* setItems has left the focus of a dropdown beyond the end of its collection
C32_FocusBeyondEnd ==
    /\ wd[1].kind = "dropdown"
    /\ Replacing
    /\ wd[1].focusedIndex >= Len(wd[1].dataItems)

\* the open and close events of the last operation, in order
OpenCloseEvents == SelectSeq(emitted, LAMBDA e : e.ev \in {"open", "close"})

\* the k-th of them, were they to alternate from the state before
Alternating(k) == IF (k % 2 = 1) = lastOp.wdBefore[1].opened THEN "close" ELSE "open"

\* the events of the last operation continue the alternation of open and
\* close, and without such an event popover and list are as they were
Alternates ==
    /\ \A k \in 1..Len(OpenCloseEvents) : OpenCloseEvents[k].ev = Alternating(k)
    /\ wd[1].opened = (lastOp.wdBefore[1].opened = (Len(OpenCloseEvents) % 2 = 0))
    /\ OpenCloseEvents = <<>> =>
           /\ wd[1].display = lastOp.wdBefore[1].display
           /\ wd[1].mounted = lastOp.wdBefore[1].mounted

C36_CloseAfterSelection ==
    /\ ~notifySame
    /\ lastOp.op = "Enter"
    /\ lastOp.wdBefore[1].opened
    /\ Len(emitted) = 2
    /\ emitted[2].ev = "close"

\* the last operation changed the selection of the widget
SelectionChanged ==
    /\ lastOp.op # "none"
    /\ Selection(wd[1]) # Selection(lastOp.wdBefore[1])

\* the last change event of the last operation carries the selection
Announced ==
    /\ Changes # <<>>
    /\ Changes[Len(Changes)].payload = Selection(wd[1])

\* C38 (as stated): whenever the selection of a widget changes, by whatever
\* path, a change event with the new selection is emitted after the update
C38_AsStated == SelectionChanged => Announced

\* what the code does: the paths that drop or clear a selection (setItems,
\* text typed into the combobox) emit nothing, every other path announces
C38_SilentWhenDropped ==
    SelectionChanged =>
        IF lastOp.op \in {"setItems", "input"} THEN Changes = <<>> ELSE Announced

\* setItems has dropped the selected entry of a dropdown without a change
C38_DroppedSilently ==
    /\ wd[1].kind = "dropdown"
    /\ lastOp.op = "setItems"
    /\ lastOp.wdBefore[1].selectedItem # NoItem
    /\ wd[1].selectedItem = NoItem
    /\ emitted = <<>>

\* the list of a closed widget is neither mounted nor rendered, and the
\* operation that opened a widget has left the list mounted and rendered
\* from its state
RenderedOnlyWhileOpened(rec) ==
    /\ ~rec.opened => (~rec.mounted /\ rec.rendered = <<>>)
    /\ (rec.opened /\ lastOp.op # "none" /\ ~lastOp.wdBefore[1].opened) =>
           (rec.mounted /\ rec.rendered = <<VisibleItems(rec)>>)

\* C31 (as stated): for each of the three widgets the entry list is neither
\* mounted nor rendered while the popover is closed, whatever changes the
\* state meanwhile, and the next open renders it from the state of that time
C31_AsStated == RenderedOnlyWhileOpened(wd[1])

\* what the code does: so for the dropdown and the combobox; the list of the
\* multi-select is mounted at construction and rendered after every change
C31_MultiselectAlwaysRendered ==
    IF wd[1].kind = "multiselect"
    THEN wd[1].mounted /\ wd[1].rendered = <<wd[1].filteredItems>>
    ELSE RenderedOnlyWhileOpened(wd[1])

\* setItems on a closed multi-select has rendered the new rows
C31_RenderedWhileClosed ==
    /\ wd[1].kind = "multiselect"
    /\ lastOp.op = "setItems"
    /\ ~lastOp.wdBefore[1].opened
    /\ ~wd[1].opened
    /\ wd[1].rendered # lastOp.wdBefore[1].rendered
    /\ wd[1].rendered # << <<>> >>

\* setItems on a closed dropdown has rendered nothing
C31_DropdownDeferred ==
    /\ wd[1].kind = "dropdown"
    /\ lastOp.op = "setItems"
    /\ ~wd[1].opened
    /\ wd[1].dataItems # lastOp.wdBefore[1].dataItems
    /\ wd[1].rendered = <<>>
(* ========================= teardown: C35, C37 ========================= *)

\* widget i was destroyed before the last operation
DestroyedBefore(i) == i <= Len(lastOp.wdBefore) /\ lastOp.wdBefore[i].destroyed

\* the events widget i emitted during the last operation
EmittedBy(i) == SelectSeq(emitted, LAMBDA e : e.widget = i)

\* the last operation left widget i as it was and made it emit nothing
Untouched(i) == wd[i] = lastOp.wdBefore[i] /\ EmittedBy(i) = <<>>

\* C37: after destroy() nothing changes the state of the widget or makes it
\* emit an event: no key press or pointer press on the former root input, no
\* press elsewhere, no DataSource event.
C37_AsStated == \A i \in 1..Len(wd) : DestroyedBefore(i) => Untouched(i)

\* what destroy() does stop: the presses on the root input and elsewhere,
\* the Escape key and the DataSource events leave a destroyed widget alone
C37_RemovedListenersSilent ==
    \A i \in 1..Len(wd) :
        (DestroyedBefore(i) /\ lastOp.op \notin {"ArrowDown", "Enter"}) => Untouched(i)

\* a destroyed widget that an arrow key has opened
C37_OpenedAfterDestroy ==
    /\ lastOp.op = "ArrowDown"
    /\ DestroyedBefore(lastOp.id)
    /\ ~lastOp.wdBefore[lastOp.id].opened
    /\ wd[lastOp.id].opened
    /\ HasEmitted(lastOp.id, "open")

\* the registrations widget i made on the DataSource
ListenersOf(i) ==
    {r \in 1..Len(regs) : regs[r].fn \in {WidgetCb("wLoading", i), WidgetCb("wLoad", i),
                                          WidgetCb("wError", i)}}

\* the registrations held by the handler arrays of a heap
Held(heap) == UNION {{heap[a][k] : k \in 1..Len(heap[a])} : a \in 1..Len(heap)}

\* how often registration r was called during the last operation
TimesRun(r) == Cardinality({k \in 1..Len(calls) : calls[k].reg = r})

\* how often the DataSource emitted the event during the last operation: a
\* fetch() emits before its first await, its continuation after it
TimesEmitted(event) ==
    Cardinality({k \in 1..Len(last.events) :
                    /\ last.events[k].ev = event
                    /\ last.events[k].sync = (lastOp.op # "settle")})

\* registration r belongs to a subscriber that is not a destroyed widget
Remaining(r) ==
    regs[r].fn = PlainCb(1) \/ \E i \in 1..Len(wd) : r \in ListenersOf(i) /\ ~wd[i].destroyed

\* C35: with several widgets attached to one DataSource, destroy() of one
\* removes exactly its own loading/load/error listeners: the handler arrays
\* lose these and nothing else; the destroyed widget is not called and does
\* not change on any later event of the DataSource, one of a fetch in flight
\* when it was destroyed included; every other attached widget and every
\* other subscriber is called once for each event emitted.
C35_DestroyRemovesOwnListeners ==
    /\ lastOp.op = "destroy" =>
            Held(subs) = Held(lastOp.arg[1]) \ ListenersOf(lastOp.id)
    /\ \A i \in 1..Len(wd) :
            DestroyedBefore(i) =>
                /\ Untouched(i)
                /\ \A r \in ListenersOf(i) : TimesRun(r) = 0
    /\ \A r \in 1..Len(regs) :
            Remaining(r) => TimesRun(r) = TimesEmitted(regs[r].ev)

\* a fetch in flight when the first widget was destroyed has delivered its
\* data: the destroyed widget still shows its loading indicator, the second
\* widget and the other subscriber received the load event
C35_Witness ==
    /\ lastOp.op = "settle"
    /\ Len(wd) = 2
    /\ wd[1].destroyed /\ wd[1].loadingShown /\ wd[1].dataItems = <<>>
    /\ ~wd[2].destroyed /\ ~wd[2].loadingShown /\ wd[2].dataItems # <<>>
    /\ \E r \in 1..Len(regs) :
           regs[r].fn = PlainCb(1) /\ regs[r].ev = "load" /\ TimesRun(r) = 1

====
